---------------------------- MODULE Spec2Model ----------------------------
(***************************************************************************)
(* Anomaly detection and pattern-correlation engine of ALRIS               *)
(* (backend/anomaly_detection.py, backend/ml_models.py,                    *)
(* backend/correlation_engine.py).                                         *)
(*                                                                         *)
(* An anomaly is a Python dict: here a function from key strings to        *)
(* values, whose DOMAIN is the set of keys the dict holds.  Payload keys   *)
(* that no stage ever reads (explanation, expected_range, zscore, ...) are *)
(* left out.  Scores are integers: geo_hotspot_score in hundredths,        *)
(* confidence_score in tenths.  A table (DataFrame) is a record of its     *)
(* column names and its rows; table cells are integers (minutes and        *)
(* percentages in tenths), and the statistics on them are computed in      *)
(* exact integer arithmetic.                                               *)
(*                                                                         *)
(* Four specifications share the variables:                                *)
(*   SpecConfirm  multisignal_confirmation called on arbitrary sources     *)
(*   SpecCorr     PatternCorrelationEngine run on an arbitrary batch       *)
(*   Spec         run_anomaly_detection, stage by stage                    *)
(*   SpecDetect   detector methods called on an engine in any order        *)
(***************************************************************************)
EXTENDS Integers, Sequences, FiniteSets, TLC

VARIABLES
    ms_sources,     \* multisignal_confirmation: the anomaly_sources argument
    ms_result,      \* multisignal_confirmation: the returned dict
    ms_done,        \* multisignal_confirmation has returned
    ce_anomalies,   \* PatternCorrelationEngine.anomalies
    ce_enriched,    \* PatternCorrelationEngine.enriched_anomalies
    ce_ran,         \* run_correlation_pipeline has returned
    ce_now,         \* the day datetime.now() fell on during the run
    data_dir,       \* the files of <output_path>/data: file name -> table
    engine,         \* the AnomalyDetectionEngine: attribute name -> value
    pc,             \* run_anomaly_detection: the call it makes next
    exception,      \* the exception that left run_anomaly_detection, if any
    calls,          \* the calls on the engine that have returned, in order
    config          \* the window and threshold the rolling detector is called with

msvars == <<ms_sources, ms_result, ms_done>>
cevars == <<ce_anomalies, ce_enriched, ce_ran, ce_now>>
advars == <<data_dir, engine, pc, exception, calls, config>>

-----------------------------------------------------------------------------
(* Python values *)

\* None, and the float nan pandas puts in a cell whose row lacks the column.
None == "<None>"
NaN == "<nan>"

\* dict.get(k) and dict.get(k, default)
Get(d, k) == IF k \in DOMAIN d THEN d[k] ELSE None
GetOr(d, k, default) == IF k \in DOMAIN d THEN d[k] ELSE default

\* d[k] = v on a copy of d
Put(d, k, v) == (k :> v) @@ d

Severities == {"Medium", "High", "Critical"}

-----------------------------------------------------------------------------
(* ml_models.multisignal_confirmation *)

\* The keys of anomaly_sources as apply_multisignal_confirmation builds it,
\* in the dict's insertion order.
SourceNames == <<"statistical_seasonal", "isolation_forest", "zscore_cluster", "changepoint">>

\* sig = (anomaly.get('date'), anomaly.get('region'), anomaly.get('metric', 'general'))
signature(anomaly) ==
    <<Get(anomaly, "date"), Get(anomaly, "region"), GetOr(anomaly, "metric", "general")>>

\* The (source, anomaly) pairs in the order the two nested loops visit them.
RECURSIVE Detections(_)
Detections(anomaly_sources) ==
    IF anomaly_sources = <<>> THEN <<>>
    ELSE LET s == Head(anomaly_sources)
         IN  [i \in 1..Len(s.anomalies) |-> [source |-> s.name, anomaly |-> s.anomalies[i]]]
             \o Detections(Tail(anomaly_sources))

\* The loop body that opens a new entry for every detection.
RecordDetection_NoGrouping(acc, d) ==
    Append(acc, [sig     |-> signature(d.anomaly),
                 sources |-> {d.source},
                 details |-> Put(d.anomaly, "detected_by", <<d.source>>)])

\* One pass of the loop body: acc is the pair of dicts detection_counts and
\* anomaly_details, kept as one sequence of entries in insertion order.
RecordDetection(acc, d) ==
    LET sig == signature(d.anomaly)
    IN  IF \E i \in 1..Len(acc) : acc[i].sig = sig
        THEN [i \in 1..Len(acc) |->
                IF acc[i].sig = sig
                THEN [sig     |-> sig,
                      sources |-> acc[i].sources \cup {d.source},
                      details |-> Put(acc[i].details, "detected_by",
                                      Append(acc[i].details["detected_by"], d.source))]
                ELSE acc[i]]
        ELSE Append(acc, [sig     |-> sig,
                          sources |-> {d.source},
                          details |-> Put(d.anomaly, "detected_by", <<d.source>>)])

RECURSIVE GroupBySignature(_, _)
GroupBySignature(dets, acc) ==
    IF dets = <<>> THEN acc
    ELSE GroupBySignature(Tail(dets), RecordDetection(acc, Head(dets)))

\* len(sources) >= 2
IsConfirmedMutant(sources) == Cardinality(sources) >= 1
IsConfirmed(sources) == Cardinality(sources) >= 2

\* The body of the classification loop for one signature.  'sources' is the
\* joined text of a set, whose iteration order Python leaves open: it is kept
\* as the set.
Classify(entry) ==
    LET a0 == Put(Put(entry.details, "detection_count", Cardinality(entry.sources)),
                  "sources", entry.sources)
    IN  IF IsConfirmed(entry.sources)
        THEN Put(Put(a0, "confirmation_status", "CONFIRMED"), "severity", "High")
        ELSE Put(a0, "confirmation_status", "POTENTIAL")

multisignal_confirmation(anomaly_sources) ==
    LET groups == GroupBySignature(Detections(anomaly_sources), <<>>)
        IsConf(e) == IsConfirmed(e.sources)
        IsPot(e) == ~IsConfirmed(e.sources)
        conf == SelectSeq(groups, IsConf)
        pot == SelectSeq(groups, IsPot)
    IN  [confirmed |-> [i \in 1..Len(conf) |-> Classify(conf[i])],
         potential |-> [i \in 1..Len(pot) |-> Classify(pot[i])]]

-----------------------------------------------------------------------------
(* Dates: pd.to_datetime, Timestamp.weekday, strftime *)

\* The calendar the model's dates are taken from: January 2024, indexed by
\* day of month.  1 January 2024 is a Monday, 7 and 14 January are Sundays.
Calendar ==
    <<"2024-01-01", "2024-01-02", "2024-01-03", "2024-01-04", "2024-01-05",
      "2024-01-06", "2024-01-07", "2024-01-08", "2024-01-09", "2024-01-10",
      "2024-01-11", "2024-01-12", "2024-01-13", "2024-01-14">>

\* strftime('%Y%m%d') of the same days.
CalendarYmd ==
    <<"20240101", "20240102", "20240103", "20240104", "20240105",
      "20240106", "20240107", "20240108", "20240109", "20240110",
      "20240111", "20240112", "20240113", "20240114">>

Days == 1..Len(Calendar)

\* pd.NaT: the datetime of a missing date.  Every comparison with it is
\* false and its weekday() is nan.
NaT == -1000

\* pd.to_datetime on one cell: the day the text names, NaT for a missing one.
to_datetime(cell) ==
    IF cell \in {NaN, None} THEN NaT
    ELSE CHOOSE d \in Days : Calendar[d] = cell

\* Timestamp.isoweekday() in place of weekday(): Monday is 1, Sunday is 7.
weekday_AsIsoWeekday(dt) == IF dt = NaT THEN -1 ELSE ((dt - 1) % 7) + 1

\* Timestamp.weekday(): Monday is 0, Sunday is 6; NaT gives nan, which
\* equals no weekday (here -1).
weekday(dt) == IF dt = NaT THEN -1 ELSE (dt - 1) % 7

\* Days a run may take place on: a Sunday and a Tuesday.
NowDays == {7, 9}

\* str() of a datetime cell.
datetime_str(dt) == IF dt = NaT THEN "NaT" ELSE Calendar[dt] \o " 00:00:00"

-----------------------------------------------------------------------------
(* correlation_engine.PatternCorrelationEngine *)

\* df[col] = values
AddColumn(df, col, values) == [i \in 1..Len(df) |-> Put(df[i], col, values[i])] \o <<>>

\* pd.DataFrame(self.anomalies): one row per anomaly, one column per key that
\* any anomaly holds, nan where a row's anomaly lacks the key.
DataFrame(anomalies) ==
    LET columns == UNION { DOMAIN anomalies[i] : i \in 1..Len(anomalies) }
    IN  [i \in 1..Len(anomalies) |->
            anomalies[i] @@ [k \in columns |-> NaN]] \o <<>>

Columns(df) == DOMAIN df[1]

\* The date_dt column: the parsed date, or datetime.now() for every row when
\* no anomaly of the batch has a date.
with_date_dt(df, now) ==
    IF "date" \in Columns(df)
    THEN AddColumn(df, "date_dt", [i \in 1..Len(df) |-> to_datetime(df[i]["date"])])
    ELSE AddColumn(df, "date_dt", [i \in 1..Len(df) |-> now])

\* len(neighbors): the rows dated within one day of row i.
cluster_size(df, i) ==
    LET current_date == df[i]["date_dt"]
    IN  IF current_date = NaT THEN 0
        ELSE Cardinality({ j \in 1..Len(df) :
                            /\ df[j]["date_dt"] # NaT
                            /\ df[j]["date_dt"] >= current_date - 1
                            /\ df[j]["date_dt"] <= current_date + 1 })

correlate_temporal(df) ==
    LET sized == AddColumn(df, "concurrent_anomalies", [i \in 1..Len(df) |-> cluster_size(df, i)])
    IN  AddColumn(sized, "temporal_cluster_id",
                  [i \in 1..Len(df) |-> IF sized[i]["concurrent_anomalies"] > 3
                             THEN "TEMP-" \o CalendarYmd[sized[i]["date_dt"]]
                             ELSE None])

\* The share cut off after two decimals.
Round2_Truncated(count, total) == (100 * count) \div total

\* round(count / total, 2) in hundredths, ties to even.
Round2(count, total) ==
    LET q == (100 * count) \div total
        r == (100 * count) % total
    IN  IF 2 * r > total THEN q + 1
        ELSE IF 2 * r < total THEN q
        ELSE IF q % 2 = 0 THEN q ELSE q + 1

get_hotspot_score(df, region) ==
    IF region \in {NaN, None, ""} THEN 0
    ELSE Round2(Cardinality({ j \in 1..Len(df) : df[j]["region"] = region }), Len(df))

correlate_geographical(df) ==
    IF "region" \notin Columns(df)
    THEN AddColumn(df, "geo_hotspot_score", [i \in 1..Len(df) |-> 0])
    ELSE AddColumn(df, "geo_hotspot_score", [i \in 1..Len(df) |-> get_hotspot_score(df, df[i]["region"])])

\* center_counts mapped on the row's center_id, 0 for a row without one.
center_recurrence_count(df, i) ==
    IF df[i]["center_id"] = NaN THEN 0
    ELSE Cardinality({ j \in 1..Len(df) : df[j]["center_id"] = df[i]["center_id"] })

\* The step flagging a center from its second occurrence on.
correlate_centers_devices_FromTwo(df) ==
    IF "center_id" \notin Columns(df)
    THEN AddColumn(df, "is_persistent_offender", [i \in 1..Len(df) |-> FALSE])
    ELSE LET counted == AddColumn(df, "center_recurrence_count",
                                  [i \in 1..Len(df) |-> center_recurrence_count(df, i)])
         IN  AddColumn(counted, "is_persistent_offender",
                       [i \in 1..Len(df) |-> counted[i]["center_recurrence_count"] >= 2])

correlate_centers_devices(df) ==
    IF "center_id" \notin Columns(df)
    THEN AddColumn(df, "is_persistent_offender", [i \in 1..Len(df) |-> FALSE])
    ELSE LET counted == AddColumn(df, "center_recurrence_count",
                                  [i \in 1..Len(df) |-> center_recurrence_count(df, i)])
         IN  AddColumn(counted, "is_persistent_offender",
                       [i \in 1..Len(df) |-> counted[i]["center_recurrence_count"] > 2])

\* 'Drop' in str(anomaly_type): the anomaly types of the detectors whose text
\* holds "Drop".
DropTypes == {"Drop", "Sudden Drop"}

SuppressionReason == "Historical Pattern: Weekly Sunday Dip (Benign)"

\* Rule 1 of _match_historical_patterns.
is_weekend_dip(row) ==
    /\ GetOr(row, "anomaly_type", "") \in DropTypes
    /\ weekday(row["date_dt"]) = 6

match_historical_patterns(df) ==
    LET flagged == AddColumn(df, "is_suppressed", [i \in 1..Len(df) |-> is_weekend_dip(df[i])])
    IN  AddColumn(flagged, "suppression_reason",
                  [i \in 1..Len(df) |-> IF flagged[i]["is_suppressed"] THEN SuppressionReason ELSE None])

\* The score without its cap.
confidence_score_NoCap(anomaly) ==
    750
    + (IF Get(anomaly, "severity") = "Critical" THEN 150
       ELSE IF Get(anomaly, "severity") = "High" THEN 100 ELSE 0)
    + (IF GetOr(anomaly, "concurrent_anomalies", 0) > 3 THEN 50 ELSE 0)
    + (IF GetOr(anomaly, "geo_hotspot_score", 0) > 30 THEN 40 ELSE 0)
    + (IF GetOr(anomaly, "is_persistent_offender", FALSE) THEN 50 ELSE 0)

\* The score with the two severity boosts exchanged.
confidence_score_BoostsSwapped(anomaly) ==
    LET score == 750
            + (IF Get(anomaly, "severity") = "Critical" THEN 100
               ELSE IF Get(anomaly, "severity") = "High" THEN 150 ELSE 0)
            + (IF GetOr(anomaly, "concurrent_anomalies", 0) > 3 THEN 50 ELSE 0)
            + (IF GetOr(anomaly, "geo_hotspot_score", 0) > 30 THEN 40 ELSE 0)
            + (IF GetOr(anomaly, "is_persistent_offender", FALSE) THEN 50 ELSE 0)
    IN  IF score > 999 THEN 999 ELSE score

\* The confidence score in tenths: base 75.0, capped at 99.9.
confidence_score(anomaly) ==
    LET base == 750
        sev == IF Get(anomaly, "severity") = "Critical" THEN 150
               ELSE IF Get(anomaly, "severity") = "High" THEN 100 ELSE 0
        conc == IF GetOr(anomaly, "concurrent_anomalies", 0) > 3 THEN 50 ELSE 0
        geo == IF GetOr(anomaly, "geo_hotspot_score", 0) > 30 THEN 40 ELSE 0
        pers == IF GetOr(anomaly, "is_persistent_offender", FALSE) THEN 50 ELSE 0
        score == base + sev + conc + geo + pers
    IN  IF score > 999 THEN 999 ELSE score

temporal_persistence(anomaly) ==
    IF GetOr(anomaly, "is_persistent_offender", FALSE) THEN "High (Recurrent)"
    ELSE IF GetOr(anomaly, "concurrent_anomalies", 0) > 5 THEN "Medium (Burst)"
    ELSE "Low"

\* The text an f-string gives for a value.
PyStr(v) == IF v = None THEN "None" ELSE IF v = NaN THEN "nan" ELSE v

audit_string(anomaly) ==
    PyStr(Get(anomaly, "date")) \o "-" \o PyStr(Get(anomaly, "region")) \o "-"
    \o PyStr(Get(anomaly, "center_id")) \o "-" \o PyStr(Get(anomaly, "anomaly_type"))
    \o "-ZERO_PII_GUARD"

\* sha256(...).hexdigest()[:16].upper(): the digest is kept as a tag on the
\* hashed text, so two signatures are equal exactly when the hashed texts are.
sha256_16(text) == "SHA256:" \o text

generate_compliance_signature(anomaly) == sha256_16(audit_string(anomaly))

\* convert_to_native_types and the datetime-to-str loop on one record: nan
\* cells (keys the anomaly did not hold) become None, date_dt becomes text.
to_native(record, anomaly, columns) ==
    [k \in DOMAIN record |->
        IF k = "date_dt" THEN datetime_str(record[k])
        ELSE IF k \in columns /\ k \notin DOMAIN anomaly THEN None
        ELSE record[k]]

\* The tags get_enriched_anomalies adds to one record of df.to_dict('records').
enrich(record) ==
    LET scored == Put(record, "confidence_score", confidence_score(record))
        tagged == Put(scored, "temporal_persistence", temporal_persistence(scored))
    IN  Put(tagged, "compliance_signature", generate_compliance_signature(tagged))

\* The enriched list with the suppressed records filtered out.
get_enriched_anomalies_DropSuppressed(df, anomalies) ==
    LET all == [i \in 1..Len(df) |->
                    to_native(enrich(df[i]), anomalies[i], Columns(DataFrame(anomalies)))]
        Active(a) == ~a["is_suppressed"]
    IN  SelectSeq(all, Active)

get_enriched_anomalies(df, anomalies) ==
    [i \in 1..Len(df) |-> to_native(enrich(df[i]), anomalies[i], Columns(DataFrame(anomalies)))]

run_correlation_pipeline(anomalies, now) ==
    IF anomalies = <<>> THEN <<>>
    ELSE LET df0 == with_date_dt(DataFrame(anomalies), now)
             df1 == correlate_temporal(df0)
             df2 == correlate_geographical(df1)
             df3 == correlate_centers_devices(df2)
             df4 == match_historical_patterns(df3)
         IN  get_enriched_anomalies(df4, anomalies)

-----------------------------------------------------------------------------
(* pandas statistics *)

RECURSIVE Sum(_)
Sum(values) == IF values = <<>> THEN 0 ELSE Head(values) + Sum(Tail(values))

RECURSIVE Concat(_)
Concat(lists) == IF lists = <<>> THEN <<>> ELSE Head(lists) \o Concat(Tail(lists))

\* Series.unique(): the values in order of first appearance.
RECURSIVE Unique(_)
Unique(values) ==
    IF values = <<>> THEN <<>>
    ELSE LET rest == Unique(SubSeq(values, 1, Len(values) - 1))
             last == values[Len(values)]
         IN  IF \E i \in 1..Len(rest) : rest[i] = last THEN rest ELSE Append(rest, last)

\* n * (v - mean), n being the number of values.
ScaledDev(values, v) == Len(values) * v - Sum(values)

\* n^2 * (n - 1) * std^2, std being Series.std(): the sample deviation.
ScaledVar(values) ==
    LET n == Len(values)
        total == Sum(values)
    IN  Sum([i \in 1..n |-> (n * values[i] - total) * (n * values[i] - total)] \o <<>>)

\* The comparison with >= in place of >.
DeviatesBeyond_NonStrict(values, v, num, den) ==
    LET n == Len(values)
        d == ScaledDev(values, v)
    IN  /\ n >= 2
        /\ d * d * (n - 1) * den * den >= num * num * ScaledVar(values)

\* abs(v - mean) > (num / den) * std.  The std of fewer than two values is
\* nan, and every comparison with nan is false.
DeviatesBeyond(values, v, num, den) ==
    LET n == Len(values)
        d == ScaledDev(values, v)
    IN  /\ n >= 2
        /\ d * d * (n - 1) * den * den > num * num * ScaledVar(values)

\* A dataset attribute that is None.
NoneDf == <<>>

\* df[col] as a list.
Column(df, col) == [i \in 1..Len(df.rows) |-> df.rows[i][col]] \o <<>>

\* df.index
Index(df) == [i \in 1..Len(df.rows) |-> i] \o <<>>

-----------------------------------------------------------------------------
(* ingestion_engine.IngestionLayer *)

\* The historical files load_historical_datasets looks for, by dataset key
\* (baseline_metrics.csv, which no stage reads, is left out).
HistoricalFiles ==
    [region_updates |-> "region_update_volumes.csv",
     center_perf    |-> "center_performance.csv",
     auth_retries   |-> "auth_retries.csv"]

BenchmarkFile == "regional_benchmarks.csv"

\* The datasets dict: one key per file that exists.
load_historical_datasets(dir) ==
    [key \in { k \in DOMAIN HistoricalFiles : HistoricalFiles[k] \in DOMAIN dir } |->
        dir[HistoricalFiles[key]]]

aggregate_ingested_data(dir) ==
    [realtime |-> <<>>, historical |-> load_historical_datasets(dir)]

-----------------------------------------------------------------------------
(* anomaly_detection.AnomalyDetectionEngine *)

\* __init__, for the payload the ingestion layer hands over.  The attributes
\* no stage reads (state_monthly_agg, historical_baselines) are left out.
AnomalyDetectionEngine(processed_data, features, ingested_data) ==
    [monthly_agg        |-> processed_data.monthly_agg,
     state_features     |-> features.state_features,
     center_ops         |-> GetOr(ingested_data.historical, "center_perf", NoneDf),
     auth_retries       |-> GetOr(ingested_data.historical, "auth_retries", NoneDf),
     region_updates     |-> GetOr(ingested_data.historical, "region_updates", NoneDf),
     anomalies          |-> <<>>,
     state_anomalies    |-> <<>>,
     center_anomalies   |-> <<>>,
     retry_anomalies    |-> <<>>,
     seasonal_anomalies |-> <<>>,
     peer_lag_anomalies |-> <<>>,
     report             |-> <<>>]

Metrics == <<"total_enrolment", "total_demo_updates", "total_bio_updates">>

\* The anomalies detect_zscore_anomalies appends for one metric.  A std of 0
\* (or nan) flags nothing.
zscore_anomalies(df, metric) ==
    IF metric \notin df.columns THEN <<>>
    ELSE LET values == Column(df, metric)
             Flagged(idx) == DeviatesBeyond(values, values[idx], 5, 2)
             flagged == SelectSeq(Index(df), Flagged)
         IN  [k \in 1..Len(flagged) |->
                [month        |-> df.rows[flagged[k]].month,
                 metric       |-> metric,
                 value        |-> values[flagged[k]],
                 anomaly_type |-> IF ScaledDev(values, values[flagged[k]]) > 0
                                  THEN "Spike" ELSE "Drop",
                 severity     |-> IF DeviatesBeyond(values, values[flagged[k]], 3, 1)
                                  THEN "Critical" ELSE "High"]]

detect_zscore_anomalies(self) ==
    LET df == self.monthly_agg
        found == Concat([m \in 1..Len(Metrics) |-> zscore_anomalies(df, Metrics[m])] \o <<>>)
    IN  Put(Put(self, "anomalies", self.anomalies \o found), "monthly_with_zscore", df)

\* The defaults of detect_rolling_average_anomalies: window=3 and
\* threshold=1.5, a threshold being kept as a ratio of integers.
Window == 3
RollingThreshold == [num |-> 3, den |-> 2]

\* The arguments of a call that passes none.
DefaultConfig == [window |-> Window, threshold |-> RollingThreshold]

\* The check on self.anomalies that is never made.
existing_Never(self, month, metric) == FALSE

\* existing: the anomalies already recorded for the month and the metric.
existing(self, month, metric) ==
    \E i \in 1..Len(self.anomalies) :
        /\ self.anomalies[i].month = month
        /\ self.anomalies[i].metric = metric

\* The anomalies detect_rolling_average_anomalies finds for one metric.
\* monthly_agg is built sorted by month, so sort_values leaves it as it is.
\* A rolling std of nan or 0 is replaced by 1, where value - mean is 0.
rolling_anomalies(self, df, metric, window, threshold) ==
    IF metric \notin df.columns THEN <<>>
    ELSE LET values == Column(df, metric)
             rolling(idx) == SubSeq(values, IF idx > window THEN idx - window + 1 ELSE 1, idx)
             Flagged(idx) == /\ DeviatesBeyond(rolling(idx), values[idx],
                                               threshold.num, threshold.den)
                             /\ ~existing(self, df.rows[idx].month, metric)
             flagged == SelectSeq(Index(df), Flagged)
         IN  [k \in 1..Len(flagged) |->
                [month        |-> df.rows[flagged[k]].month,
                 metric       |-> metric,
                 value        |-> values[flagged[k]],
                 anomaly_type |-> IF ScaledDev(rolling(flagged[k]), values[flagged[k]]) > 0
                                  THEN "Trend Break" ELSE "Sudden Drop",
                 severity     |-> "Medium"]]

detect_rolling_average_anomalies(self, window, threshold) ==
    LET df == self.monthly_agg
        found == Concat([m \in 1..Len(Metrics) |->
                            rolling_anomalies(self, df, Metrics[m], window, threshold)] \o <<>>)
    IN  Put(self, "anomalies", self.anomalies \o found)

\* Confidence in hundredths.
detect_ensemble_anomalies(self) ==
    LET verify(anomaly) ==
            LET confidence == IF anomaly.severity = "Critical" THEN 85 ELSE 70
            IN  Put(Put(anomaly, "confidence", confidence), "verification",
                    IF confidence > 80 THEN "Verified via Ensemble Model"
                    ELSE "Statistical Alert")
    IN  Put(self, "anomalies",
            [i \in 1..Len(self.anomalies) |-> verify(self.anomalies[i])] \o <<>>)

detect_state_level_anomalies(self) ==
    LET df == self.state_features
        bio_ratio == Column(df, "biometric_update_ratio")
        volatility == Column(df, "growth_volatility")
        LowBio(row) == /\ ScaledDev(bio_ratio, row.biometric_update_ratio) < 0
                       /\ DeviatesBeyond(bio_ratio, row.biometric_update_ratio, 3, 2)
        HighVol(row) == /\ ScaledDev(volatility, row.growth_volatility) > 0
                        /\ DeviatesBeyond(volatility, row.growth_volatility, 2, 1)
        low_bio_states == SelectSeq(df.rows, LowBio)
        high_vol_states == SelectSeq(df.rows, HighVol)
    IN  Put(self, "state_anomalies",
            self.state_anomalies
            \o [i \in 1..Len(low_bio_states) |->
                    [state        |-> low_bio_states[i].state,
                     metric       |-> "biometric_update_ratio",
                     value        |-> low_bio_states[i].biometric_update_ratio,
                     anomaly_type |-> "Low Biometric Updates",
                     severity     |-> "High"]]
            \o [i \in 1..Len(high_vol_states) |->
                    [state        |-> high_vol_states[i].state,
                     metric       |-> "growth_volatility",
                     value        |-> high_vol_states[i].growth_volatility,
                     anomaly_type |-> "Erratic Growth Pattern",
                     severity     |-> "Medium"]])

\* df[df['region'] == region]
RegionRows(df, region) ==
    LET InRegion(row) == row.region = region
    IN  SelectSeq(df.rows, InRegion)

\* The outliers of one region: volume outside mean +/- 2.5 std.
seasonal_outliers(region_df) ==
    LET volumes == [i \in 1..Len(region_df) |-> region_df[i].update_volume_count] \o <<>>
        Outlier(row) == DeviatesBeyond(volumes, row.update_volume_count, 5, 2)
        outliers == SelectSeq(region_df, Outlier)
    IN  [i \in 1..Len(outliers) |->
            [date         |-> outliers[i].date,
             region       |-> outliers[i].region,
             metric       |-> "update_volume_count",
             value        |-> outliers[i].update_volume_count,
             anomaly_type |-> "Seasonal Deviation",
             severity     |-> "Medium"]]

detect_seasonal_anomalies(self) ==
    IF self.region_updates = NoneDf THEN self
    ELSE LET df == self.region_updates
             unique_regions == Unique(Column(df, "region"))
         IN  Put(self, "seasonal_anomalies",
                 Concat([r \in 1..Len(unique_regions) |->
                            seasonal_outliers(RegionRows(df, unique_regions[r]))] \o <<>>))

\* The mask that also takes the rows at 8.0.
speed_mask_Inclusive(row) == row.avg_processing_time_min <= 80

\* speed_mask: avg_processing_time_min < 8.0 (cells in tenths).
speed_mask(row) == row.avg_processing_time_min < 80

\* error_mask: biometric_error_rate_pct > 4.0 (cells in tenths).
error_mask(row) == row.biometric_error_rate_pct > 40

\* The anomalies appended for the rows of speed_mask.
center_speed_anomalies(df) ==
    LET fast == SelectSeq(df.rows, speed_mask)
    IN  [i \in 1..Len(fast) |->
            [center_id    |-> fast[i].center_id,
             region       |-> fast[i].region,
             metric       |-> "avg_processing_time_min",
             value        |-> fast[i].avg_processing_time_min,
             anomaly_type |-> "Impossible Efficiency (Bot Risk)",
             severity     |-> "Critical"]]

\* The anomalies appended for the rows of error_mask.
center_error_anomalies(df) ==
    LET faulty == SelectSeq(df.rows, error_mask)
    IN  [i \in 1..Len(faulty) |->
            [center_id    |-> faulty[i].center_id,
             region       |-> faulty[i].region,
             metric       |-> "biometric_error_rate_pct",
             value        |-> faulty[i].biometric_error_rate_pct,
             anomaly_type |-> "High Bio-Failure Rate",
             severity     |-> "High"]]

\* The call raises AttributeError when the guard on None is missing.
detect_center_anomalies_raises_NoGuard(self) ==
    \/ self.center_ops = NoneDf
    \/ ~({"avg_processing_time_min", "biometric_error_rate_pct"} \subseteq self.center_ops.columns)

\* The call raises KeyError: a column it reads is not in the table.
detect_center_anomalies_raises(self) ==
    /\ self.center_ops # NoneDf
    /\ ~({"avg_processing_time_min", "biometric_error_rate_pct"} \subseteq self.center_ops.columns)

\* The engine the call leaves behind, also when it raises part-way: the
\* speed anomalies are appended before the error column is read.
detect_center_anomalies(self) ==
    IF self.center_ops = NoneDf THEN self
    ELSE LET df == self.center_ops
         IN  IF "avg_processing_time_min" \notin df.columns THEN self
             ELSE IF "biometric_error_rate_pct" \notin df.columns
             THEN Put(self, "center_anomalies",
                      self.center_anomalies \o center_speed_anomalies(df))
             ELSE Put(self, "center_anomalies",
                      self.center_anomalies \o center_speed_anomalies(df)
                      \o center_error_anomalies(df))

\* The call raises KeyError: retry_ratio cannot be computed.
detect_auth_retry_anomalies_raises(self) ==
    /\ self.auth_retries # NoneDf
    /\ ~({"high_retry_events_count", "total_auth_attempts"} \subseteq self.auth_retries.columns)

\* The table of the engine when the retry_ratio column (in thousandths) is
\* written to the table itself.
auth_retries_written_InPlace(self) ==
    [columns |-> self.auth_retries.columns \cup {"retry_ratio"},
     rows    |-> [i \in 1..Len(self.auth_retries.rows) |->
                    ("retry_ratio" :> ((1000 * self.auth_retries.rows[i].high_retry_events_count)
                                       \div self.auth_retries.rows[i].total_auth_attempts))
                    @@ self.auth_retries.rows[i]] \o <<>>]

\* The table of the engine once the retry_ratio column is written: the
\* column goes to df, which is self.auth_retries.copy().
auth_retries_written(self) == self.auth_retries

\* high_retry_events_count / total_auth_attempts > 0.15
detect_auth_retry_anomalies(self) ==
    IF self.auth_retries = NoneDf \/ detect_auth_retry_anomalies_raises(self) THEN self
    ELSE LET df == self.auth_retries
             Burst(row) == 100 * row.high_retry_events_count > 15 * row.total_auth_attempts
             bursts == SelectSeq(df.rows, Burst)
         IN  Put(Put(self, "auth_retries", auth_retries_written(self)),
                 "retry_anomalies",
                 self.retry_anomalies
                 \o [i \in 1..Len(bursts) |->
                        [date         |-> bursts[i].date,
                         region       |-> bursts[i].region,
                         metric       |-> "high_retry_rate",
                         count        |-> bursts[i].high_retry_events_count,
                         anomaly_type |-> "Auth Brute-Force Risk",
                         severity     |-> "Critical"]])

\* The ML stages skip a missing or empty region_updates table.
NoRegionUpdates(self) ==
    IF self.region_updates = NoneDf THEN TRUE ELSE Len(self.region_updates.rows) = 0

\* contamination=0.05 as a percentage.
ContaminationPct == 5

\* The sets of rows IsolationForest.predict can mark -1 on its own training
\* data: the rows scoring below the 5th percentile of the scores, which are
\* at most ceil(0.05 * (n - 1)) of n rows.  Which rows is the library's.
IsolationForestPredictions(self) ==
    IF NoRegionUpdates(self) THEN {{}}
    ELSE LET n == Len(self.region_updates.rows)
             most == (ContaminationPct * (n - 1) + 99) \div 100
         IN  { rows \in SUBSET (1..n) : Cardinality(rows) <= most }

\* The anomaly an ML stage records for one row of region_updates.
ml_anomaly(row, anomaly_type, severity) ==
    [date         |-> row.date,
     region       |-> row.region,
     metric       |-> "update_volume_count",
     value        |-> row.update_volume_count,
     anomaly_type |-> anomaly_type,
     severity     |-> severity]

\* 'predicted' is the set of rows the model marked -1.
detect_isolation_forest_anomalies(self, predicted) ==
    IF NoRegionUpdates(self) THEN self
    ELSE LET df == self.region_updates
             Marked(idx) == idx \in predicted
             anomaly_df == SelectSeq(Index(df), Marked)
         IN  Put(self, "isolation_forest_anomalies",
                 [k \in 1..Len(anomaly_df) |->
                    ml_anomaly(df.rows[anomaly_df[k]], "Isolation Forest Outlier", "Medium")])

\* Bound on the rows DBSCAN leaves as noise or in an anomalous cluster.
MaxClusterOutliers == 1

\* The sets of rows the clustering can single out: any, up to the bound.
ZscoreClusterPredictions(self) ==
    IF NoRegionUpdates(self) THEN {{}}
    ELSE { rows \in SUBSET (1..Len(self.region_updates.rows)) :
              Cardinality(rows) <= MaxClusterOutliers }

\* 'outliers' is the set of rows in an anomalous cluster or in none.
detect_zscore_clusters(self, outliers) ==
    IF NoRegionUpdates(self) THEN self
    ELSE LET df == self.region_updates
             Marked(idx) == idx \in outliers
             anomaly_df == SelectSeq(Index(df), Marked)
         IN  Put(self, "zscore_cluster_anomalies",
                 [k \in 1..Len(anomaly_df) |->
                    ml_anomaly(df.rows[anomaly_df[k]], "Z-score Cluster Outlier", "Medium")])

\* A region needs this many rows for change-point detection.
MinRegionRows == 10

\* min_size=5 and the jump of rpt.Pelt (its default).
MinSize == 5
PeltJump == 5

\* The break indices PELT can return for a series of n values, the final
\* index n removed: multiples of the jump that leave min_size values on
\* either side.
ChangepointCandidates(n) ==
    { k \in 1..(n - 1) : k % PeltJump = 0 /\ k >= MinSize /\ n - k >= MinSize }

\* The regions change-point detection runs on.
ChangepointRegions(self) ==
    IF NoRegionUpdates(self) THEN {}
    ELSE LET regions == Unique(Column(self.region_updates, "region"))
         IN  { regions[r] : r \in { q \in 1..Len(regions) :
                 Len(RegionRows(self.region_updates, regions[q])) >= MinRegionRows } }

\* What the library can return over all regions: per region a set of
\* break indices.
ChangepointPredictions(self) ==
    LET regions == ChangepointRegions(self)
        candidates == [region \in regions |->
                          ChangepointCandidates(Len(RegionRows(self.region_updates, region)))]
    IN  { predicted \in [regions -> SUBSET UNION { candidates[region] : region \in regions }] :
            \A region \in regions : predicted[region] \subseteq candidates[region] }

\* The anomalies of one region; its rows come sorted by date.  Break index
\* cp_idx is the row at iloc[cp_idx], counted from 0.
changepoint_anomalies(region_df, change_points) ==
    LET IsBreak(pos) == (pos - 1) \in change_points
        breaks == SelectSeq([i \in 1..Len(region_df) |-> i] \o <<>>, IsBreak)
    IN  [k \in 1..Len(breaks) |->
            Put(ml_anomaly(region_df[breaks[k]], "Regime Change", "High"),
                "change_point_index", breaks[k] - 1)]

\* 'predicted' gives the break indices found for each region.
detect_changepoints(self, predicted) ==
    IF NoRegionUpdates(self) THEN self
    ELSE LET df == self.region_updates
             regions == Unique(Column(df, "region"))
         IN  Put(self, "changepoint_anomalies",
                 Concat([r \in 1..Len(regions) |->
                            IF Len(RegionRows(df, regions[r])) < MinRegionRows THEN <<>>
                            ELSE changepoint_anomalies(RegionRows(df, regions[r]),
                                                       predicted[regions[r]])] \o <<>>))

apply_multisignal_confirmation(self) ==
    LET anomaly_sources ==
            <<[name |-> SourceNames[1], anomalies |-> self.seasonal_anomalies],
              [name |-> SourceNames[2], anomalies |-> GetOr(self, "isolation_forest_anomalies", <<>>)],
              [name |-> SourceNames[3], anomalies |-> GetOr(self, "zscore_cluster_anomalies", <<>>)],
              [name |-> SourceNames[4], anomalies |-> GetOr(self, "changepoint_anomalies", <<>>)]>>
        confirmation_result == multisignal_confirmation(anomaly_sources)
    IN  Put(Put(self, "confirmed_anomalies", confirmation_result.confirmed),
            "potential_anomalies", confirmation_result.potential)

\* The list apply_pattern_correlation hands to the correlation engine.
correlation_input(self) ==
    GetOr(self, "confirmed_anomalies", <<>>) \o self.center_anomalies
    \o self.retry_anomalies \o self.seasonal_anomalies

\* No type kept out of confirmed_anomalies.
CategoryTypes_None == {}

\* The types apply_pattern_correlation keeps out of confirmed_anomalies.
CategoryTypes == {"Auth Brute-Force Risk", "Seasonal Deviation", "Peer Performance Gap"}

\* a.get('center_id') as a condition.
has_center_id(a) == Get(a, "center_id") \notin {None, ""}

apply_pattern_correlation(self, now) ==
    LET all_anomalies == correlation_input(self)
    IN  IF all_anomalies = <<>> THEN self
        ELSE LET enriched_all == run_correlation_pipeline(all_anomalies, now)
                 Center(a) == has_center_id(a) /\ ~a["is_suppressed"]
                 Retry(a) == Get(a, "anomaly_type") = "Auth Brute-Force Risk" /\ ~a["is_suppressed"]
                 Seasonal(a) == Get(a, "anomaly_type") = "Seasonal Deviation" /\ ~a["is_suppressed"]
                 PeerLag(a) == Get(a, "anomaly_type") = "Peer Performance Gap" /\ ~a["is_suppressed"]
                 Confirmed(a) == /\ ~has_center_id(a)
                                 /\ Get(a, "anomaly_type") \notin CategoryTypes
                                 /\ ~a["is_suppressed"]
                 Suppressed(a) == a["is_suppressed"]
                 sorted == [center_anomalies   |-> SelectSeq(enriched_all, Center),
                            retry_anomalies    |-> SelectSeq(enriched_all, Retry),
                            seasonal_anomalies |-> SelectSeq(enriched_all, Seasonal),
                            peer_lag_anomalies |-> SelectSeq(enriched_all, PeerLag),
                            suppressed_anomalies |-> SelectSeq(enriched_all, Suppressed)]
             IN  IF "confirmed_anomalies" \in DOMAIN self
                 THEN ("confirmed_anomalies" :> SelectSeq(enriched_all, Confirmed)) @@ sorted @@ self
                 ELSE sorted @@ self

\* The days datetime.now() can give during the call: the clock is read only
\* for a batch in which no anomaly has a date.
ClockReads(self) ==
    IF correlation_input(self) = <<>> THEN {None}
    ELSE IF "date" \in Columns(DataFrame(correlation_input(self))) THEN {None}
    ELSE NowDays

\* The benchmark file exists.  A column missing from it raises inside the
\* try block, which leaves the list as it was.
detect_peer_lag_anomalies(self, dir) ==
    IF BenchmarkFile \notin DOMAIN dir THEN self
    ELSE LET df_bench == dir[BenchmarkFile]
         IN  IF ~({"peer_lag_flag", "state"} \subseteq df_bench.columns) THEN self
             ELSE LET Lagging(row) == row.peer_lag_flag
                      lagging == SelectSeq(df_bench.rows, Lagging)
                  IN  Put(self, "peer_lag_anomalies",
                          self.peer_lag_anomalies
                          \o [i \in 1..Len(lagging) |->
                                [state        |-> lagging[i].state,
                                 anomaly_type |-> "Peer Performance Gap",
                                 metric       |-> "Biometric Saturation",
                                 severity     |-> "High"]])

\* The call raises AttributeError: detect_zscore_anomalies has not run.
generate_anomaly_visualization_raises(self) == "monthly_with_zscore" \notin DOMAIN self

\* generated_at, the wall-clock text, is left out of the report.
generate_anomaly_report(self) ==
    LET all_anomalies == GetOr(self, "anomalies", <<>>) \o GetOr(self, "state_anomalies", <<>>)
                         \o GetOr(self, "center_anomalies", <<>>)
                         \o GetOr(self, "retry_anomalies", <<>>)
                         \o GetOr(self, "peer_lag_anomalies", <<>>)
        count(sev) == LET Is(a) == Get(a, "severity") = sev
                      IN  Len(SelectSeq(all_anomalies, Is))
    IN  Put(self, "report",
            [summary |->
                [total_anomalies    |-> Len(all_anomalies),
                 critical_count     |-> count("Critical"),
                 high_count         |-> count("High"),
                 medium_count       |-> count("Medium"),
                 fpews_alerts       |-> Len(GetOr(self, "center_anomalies", <<>>))
                                        + Len(GetOr(self, "retry_anomalies", <<>>)),
                 total_peer_gaps    |-> Len(GetOr(self, "peer_lag_anomalies", <<>>)),
                 audit_signed_count |-> Len(all_anomalies)],
             temporal_anomalies     |-> self.anomalies,
             state_anomalies        |-> self.state_anomalies,
             center_anomalies       |-> self.center_anomalies,
             retry_anomalies        |-> self.retry_anomalies,
             seasonal_anomalies     |-> self.seasonal_anomalies,
             peer_lag_anomalies     |-> self.peer_lag_anomalies,
             ml_confirmed_anomalies |-> GetOr(self, "confirmed_anomalies", <<>>),
             ml_potential_anomalies |-> GetOr(self, "potential_anomalies", <<>>),
             suppressed_anomalies   |-> GetOr(self, "suppressed_anomalies", <<>>)])

ReportFile == "anomalies.json"

\* The data directory after save_anomalies.  The report holds no nan and
\* no numpy scalar apart from Python ones here, so convert_to_native_types
\* has nothing to change in it.
save_anomalies(self, dir) == Put(dir, ReportFile, self.report)

-----------------------------------------------------------------------------
(* SpecConfirm: multisignal_confirmation on arbitrary sources *)

\* Input bound: anomalies handed to one call, over all sources.
MaxConfirmInput == 3

\* Anomalies a caller may hand in: one signature seen at three severities,
\* a second date without a metric key, and a record without a date.
ConfirmPool ==
    { [date |-> "2024-01-07", region |-> "North", metric |-> "update_volume_count",
       anomaly_type |-> "Seasonal Deviation", severity |-> "Medium"],
      [date |-> "2024-01-07", region |-> "North", metric |-> "update_volume_count",
       anomaly_type |-> "Regime Change", severity |-> "High"],
      [date |-> "2024-01-07", region |-> "North", metric |-> "update_volume_count",
       anomaly_type |-> "Spike", severity |-> "Critical"],
      [date |-> "2024-01-08", region |-> "North",
       anomaly_type |-> "Isolation Forest Outlier", severity |-> "Medium"],
      [region |-> "South", center_id |-> "IND-10000", metric |-> "avg_processing_time_min",
       anomaly_type |-> "Impossible Efficiency (Bot Risk)", severity |-> "Critical"] }

RECURSIVE SumLen(_)
SumLen(srcs) == IF srcs = <<>> THEN 0 ELSE Len(Head(srcs).anomalies) + SumLen(Tail(srcs))

NoResult == [confirmed |-> <<>>, potential |-> <<>>]

IdleConfirm ==
    /\ ms_sources = [i \in 1..Len(SourceNames) |-> [name |-> SourceNames[i], anomalies |-> <<>>]]
    /\ ms_result = NoResult
    /\ ms_done = FALSE

IdleCorr ==
    /\ ce_anomalies = <<>>
    /\ ce_enriched = <<>>
    /\ ce_ran = FALSE
    /\ ce_now = 1

\* No run of the pipeline is under way.
IdleEngine ==
    /\ data_dir = <<>>
    /\ engine = <<>>
    /\ pc = "idle"
    /\ exception = None
    /\ calls = <<>>
    /\ config = DefaultConfig

InitConfirm == IdleConfirm /\ IdleCorr /\ IdleEngine

\* The caller appends one more anomaly to one source's list.
AddDetection ==
    /\ ~ms_done
    /\ SumLen(ms_sources) < MaxConfirmInput
    /\ \E s \in 1..Len(SourceNames), a \in ConfirmPool :
          ms_sources' = [ms_sources EXCEPT ![s].anomalies = Append(@, a)]
    /\ UNCHANGED <<ms_result, ms_done, cevars, advars>>

\* The call itself.
Confirm ==
    /\ ~ms_done
    /\ ms_result' = multisignal_confirmation(ms_sources)
    /\ ms_done' = TRUE
    /\ UNCHANGED <<ms_sources, cevars, advars>>

NextConfirm == AddDetection \/ Confirm

vars == <<msvars, cevars, advars>>

SpecConfirm == InitConfirm /\ [][NextConfirm]_vars

-----------------------------------------------------------------------------
(* SpecCorr: PatternCorrelationEngine on an arbitrary batch *)

\* Input bound: anomalies in one batch.
MaxBatch == 4

\* Anomalies a caller may hand in.  Regions and center ids are those of the
\* repository's datasets ('North', 'North-East', 'IND-10000'); the second
\* center id is one that holds the separator of the audit string.
CorrPool ==
    { [date |-> "2024-01-07", region |-> "North", metric |-> "total_enrolment",
       anomaly_type |-> "Drop", severity |-> "Critical"],
      [date |-> "2024-01-06", region |-> "North", metric |-> "total_enrolment",
       anomaly_type |-> "Sudden Drop", severity |-> "Medium"],
      [date |-> "2024-01-07", region |-> "North-East", center_id |-> "IND-10000",
       metric |-> "avg_processing_time_min",
       anomaly_type |-> "Impossible Efficiency (Bot Risk)", severity |-> "Critical"],
      [date |-> "2024-01-07", region |-> "North", center_id |-> "East-IND-10000",
       metric |-> "avg_processing_time_min",
       anomaly_type |-> "Impossible Efficiency (Bot Risk)", severity |-> "Critical"],
      [region |-> "South", center_id |-> "IND-10000", metric |-> "biometric_error_rate_pct",
       anomaly_type |-> "High Bio-Failure Rate", severity |-> "High"],
      [date |-> "2024-01-10", region |-> "South", metric |-> "high_retry_rate",
       anomaly_type |-> "Auth Brute-Force Risk", severity |-> "Critical"],
      [month |-> "2024-01", metric |-> "total_enrolment",
       anomaly_type |-> "Drop", severity |-> "High"],
      [date |-> "2024-01-08", region |-> "North", metric |-> "update_volume_count",
       anomaly_type |-> "Seasonal Deviation", severity |-> "Medium"] }

InitCorr == IdleConfirm /\ IdleCorr /\ IdleEngine

\* The caller appends one more anomaly to the batch.
AddAnomaly ==
    /\ ~ce_ran
    /\ Len(ce_anomalies) < MaxBatch
    /\ \E a \in CorrPool : ce_anomalies' = Append(ce_anomalies, a)
    /\ UNCHANGED <<ce_enriched, ce_ran, ce_now, msvars, advars>>

\* PatternCorrelationEngine(anomalies).run_correlation_pipeline(), on some day.
RunCorrelation ==
    /\ ~ce_ran
    /\ \E now \in NowDays :
          /\ ce_now' = now
          /\ ce_enriched' = run_correlation_pipeline(ce_anomalies, now)
    /\ ce_ran' = TRUE
    /\ UNCHANGED <<ce_anomalies, msvars, advars>>

NextCorr == AddAnomaly \/ RunCorrelation

SpecCorr == InitCorr /\ [][NextCorr]_vars

-----------------------------------------------------------------------------
(* Spec: run_anomaly_detection, stage by stage *)

\* The calls of run_anomaly_detection on the engine, in order.
Stages ==
    <<"detect_zscore_anomalies", "detect_rolling_average_anomalies",
      "detect_ensemble_anomalies", "detect_state_level_anomalies",
      "detect_seasonal_anomalies", "detect_center_anomalies",
      "detect_auth_retry_anomalies", "detect_isolation_forest_anomalies",
      "detect_zscore_clusters", "detect_changepoints",
      "apply_multisignal_confirmation", "apply_pattern_correlation",
      "detect_peer_lag_anomalies", "generate_anomaly_visualization",
      "generate_anomaly_report", "save_anomalies">>

\* The call after 'stage', or "done" after the last one.
StageAfter(stage) ==
    LET i == CHOOSE j \in 1..Len(Stages) : Stages[j] = stage
    IN  IF i = Len(Stages) THEN "done" ELSE Stages[i + 1]

Months ==
    <<"2024-01", "2024-02", "2024-03", "2024-04", "2024-05", "2024-06",
      "2024-07", "2024-08", "2024-09", "2024-10", "2024-11", "2024-12">>

\* A monthly_agg table from one series per metric, all of one length.
MonthlyAgg(enrolment, demo, bio) ==
    [columns |-> {"month", "total_enrolment", "total_demo_updates", "total_bio_updates"},
     rows    |-> [m \in 1..Len(enrolment) |->
                    [month |-> Months[m], total_enrolment |-> enrolment[m],
                     total_demo_updates |-> demo[m], total_bio_updates |-> bio[m]]]]

\* A state_features table from the two columns the detector reads.
StateFeatures(names, bio_ratio, volatility) ==
    [columns |-> {"state", "biometric_update_ratio", "growth_volatility"},
     rows    |-> [s \in 1..Len(names) |->
                    [state |-> names[s], biometric_update_ratio |-> bio_ratio[s],
                     growth_volatility |-> volatility[s]]]]

\* The outputs of the preparation stages a run may start from: a quiet
\* year, and a year with an enrolment spike (beyond 3 std), a demographic
\* drop (between 2.5 and 3 std), one state low on biometric updates and
\* one with erratic growth.
ProcessedInputs ==
    { [processed_data |->
          [monthly_agg |-> MonthlyAgg(<<50, 50, 51, 50, 49, 50, 50, 51, 50, 49, 50, 50>>,
                                      <<40, 41, 40, 39, 40, 40, 41, 40, 39, 40, 40, 40>>,
                                      <<30, 30, 30, 30, 30, 30, 30, 30, 30, 30, 30, 30>>)],
       features |->
          [state_features |-> StateFeatures(<<"Bihar", "Kerala", "Goa">>,
                                            <<65, 72, 68>>, <<10, 12, 11>>)]],
      [processed_data |->
          [monthly_agg |-> MonthlyAgg(<<50, 50, 50, 50, 50, 100, 50, 50, 50, 50, 50, 50>>,
                                      <<50, 50, 50, 0, 50, 50, 50, 30, 50, 50, 50, 50>>,
                                      <<30, 30, 30, 30, 30, 30, 30, 30, 30, 30, 30, 30>>)],
       features |->
          [state_features |-> StateFeatures(<<"Bihar", "Kerala", "Goa", "Assam", "Punjab", "Sikkim">>,
                                            <<70, 70, 70, 70, 70, 10>>,
                                            <<90, 10, 10, 10, 10, 10>>)]] }

\* region_update_volumes.csv: ten days of one region with a peak on the
\* sixth, two regions with one day each, or the header alone.  The columns
\* only the library models read are left out.
RegionUpdateTables ==
    { [columns |-> {"date", "region", "update_volume_count"},
       rows    |-> [d \in 1..MinRegionRows |->
                      [date |-> Calendar[d], region |-> "North",
                       update_volume_count |-> IF d = 6 THEN 100 ELSE 50]]],
      [columns |-> {"date", "region", "update_volume_count"},
       rows    |-> <<[date |-> "2024-01-07", region |-> "North", update_volume_count |-> 50],
                     [date |-> "2024-01-07", region |-> "South", update_volume_count |-> 60]>>],
      [columns |-> {"date", "region", "update_volume_count"}, rows |-> <<>>] }

CenterRows ==
    <<[center_id |-> "IND-10000", region |-> "North-East",
       avg_processing_time_min |-> 25, biometric_error_rate_pct |-> 45],
      [center_id |-> "IND-10000", region |-> "North-East",
       avg_processing_time_min |-> 30, biometric_error_rate_pct |-> 15],
      [center_id |-> "IND-10001", region |-> "North",
       avg_processing_time_min |-> 80, biometric_error_rate_pct |-> 40],
      [center_id |-> "IND-10002", region |-> "South",
       avg_processing_time_min |-> 120, biometric_error_rate_pct |-> 41]>>

\* center_performance.csv: whole, or lacking one of the two columns read.
CenterTables ==
    { [columns |-> DOMAIN CenterRows[1] \ missing,
       rows    |-> [i \in 1..Len(CenterRows) |->
                      [k \in DOMAIN CenterRows[i] \ missing |-> CenterRows[i][k]]]] :
        missing \in {{}, {"avg_processing_time_min"}, {"biometric_error_rate_pct"}} }

AuthRows ==
    <<[date |-> "2024-01-07", region |-> "North",
       total_auth_attempts |-> 1000, high_retry_events_count |-> 250],
      [date |-> "2024-01-08", region |-> "South",
       total_auth_attempts |-> 1000, high_retry_events_count |-> 150]>>

\* auth_retries.csv: whole, or lacking the attempts column.
AuthTables ==
    { [columns |-> DOMAIN AuthRows[1] \ missing,
       rows    |-> [i \in 1..Len(AuthRows) |->
                      [k \in DOMAIN AuthRows[i] \ missing |-> AuthRows[i][k]]]] :
        missing \in {{}, {"total_auth_attempts"}} }

BenchmarkRows ==
    <<[state |-> "Bihar", peer_lag_flag |-> TRUE],
      [state |-> "Kerala", peer_lag_flag |-> FALSE]>>

\* regional_benchmarks.csv: whole, or lacking the flag column.
BenchmarkTables ==
    { [columns |-> DOMAIN BenchmarkRows[1] \ missing,
       rows    |-> [i \in 1..Len(BenchmarkRows) |->
                      [k \in DOMAIN BenchmarkRows[i] \ missing |-> BenchmarkRows[i][k]]]] :
        missing \in {{}, {"peer_lag_flag"}} }

\* The directories holding one file, or none, out of 'tables'.
OptionalFile(name, tables) == {<<>>} \cup { name :> t : t \in tables }

\* The data directories a run may find: each optional file is there or not.
DataDirs ==
    { r @@ c @@ a @@ b :
        r \in OptionalFile(HistoricalFiles.region_updates, RegionUpdateTables),
        c \in OptionalFile(HistoricalFiles.center_perf, CenterTables),
        a \in OptionalFile(HistoricalFiles.auth_retries, AuthTables),
        b \in OptionalFile(BenchmarkFile, BenchmarkTables) }

\* run_anomaly_detection up to the construction of the engine.
Init ==
    /\ data_dir \in DataDirs
    /\ \E input \in ProcessedInputs :
          engine = AnomalyDetectionEngine(input.processed_data, input.features,
                                          aggregate_ingested_data(data_dir))
    /\ pc = Stages[1]
    /\ exception = None
    /\ calls = <<>>
    /\ config = DefaultConfig
    /\ IdleConfirm
    /\ IdleCorr

\* The call returns: run_anomaly_detection goes on to its next call.
Returns(self) ==
    /\ engine' = self
    /\ pc' = StageAfter(pc)
    /\ calls' = Append(calls, pc)
    /\ UNCHANGED <<exception, data_dir, config, msvars, cevars>>

\* The call raises: nothing in run_anomaly_detection catches, so the
\* exception leaves it and no later call is made.
Raises(self, exc) ==
    /\ engine' = self
    /\ pc' = "raised"
    /\ exception' = exc
    /\ UNCHANGED <<data_dir, calls, config, msvars, cevars>>

DetectZscore ==
    /\ pc = "detect_zscore_anomalies"
    /\ Returns(detect_zscore_anomalies(engine))

DetectRollingAverage ==
    /\ pc = "detect_rolling_average_anomalies"
    /\ Returns(detect_rolling_average_anomalies(engine, Window, RollingThreshold))

DetectEnsemble ==
    /\ pc = "detect_ensemble_anomalies"
    /\ Returns(detect_ensemble_anomalies(engine))

DetectStateLevel ==
    /\ pc = "detect_state_level_anomalies"
    /\ Returns(detect_state_level_anomalies(engine))

DetectSeasonal ==
    /\ pc = "detect_seasonal_anomalies"
    /\ Returns(detect_seasonal_anomalies(engine))

DetectCenter ==
    /\ pc = "detect_center_anomalies"
    /\ IF detect_center_anomalies_raises(engine)
       THEN Raises(detect_center_anomalies(engine), "KeyError")
       ELSE Returns(detect_center_anomalies(engine))

DetectAuthRetry ==
    /\ pc = "detect_auth_retry_anomalies"
    /\ IF detect_auth_retry_anomalies_raises(engine)
       THEN Raises(detect_auth_retry_anomalies(engine), "KeyError")
       ELSE Returns(detect_auth_retry_anomalies(engine))

DetectIsolationForest ==
    /\ pc = "detect_isolation_forest_anomalies"
    /\ \E predicted \in IsolationForestPredictions(engine) :
          Returns(detect_isolation_forest_anomalies(engine, predicted))

DetectZscoreClusters ==
    /\ pc = "detect_zscore_clusters"
    /\ \E outliers \in ZscoreClusterPredictions(engine) :
          Returns(detect_zscore_clusters(engine, outliers))

DetectChangepoints ==
    /\ pc = "detect_changepoints"
    /\ \E predicted \in ChangepointPredictions(engine) :
          Returns(detect_changepoints(engine, predicted))

ApplyMultisignalConfirmation ==
    /\ pc = "apply_multisignal_confirmation"
    /\ Returns(apply_multisignal_confirmation(engine))

ApplyPatternCorrelation ==
    /\ pc = "apply_pattern_correlation"
    /\ \E now \in ClockReads(engine) :
          Returns(apply_pattern_correlation(engine, now))

DetectPeerLag ==
    /\ pc = "detect_peer_lag_anomalies"
    /\ Returns(detect_peer_lag_anomalies(engine, data_dir))

GenerateVisualization ==
    /\ pc = "generate_anomaly_visualization"
    /\ IF generate_anomaly_visualization_raises(engine)
       THEN Raises(engine, "AttributeError")
       ELSE Returns(engine)

GenerateReport ==
    /\ pc = "generate_anomaly_report"
    /\ Returns(generate_anomaly_report(engine))

SaveAnomalies ==
    /\ pc = "save_anomalies"
    /\ data_dir' = save_anomalies(engine, data_dir)
    /\ pc' = StageAfter(pc)
    /\ calls' = Append(calls, pc)
    /\ UNCHANGED <<engine, exception, config, msvars, cevars>>

Next ==
    \/ DetectZscore
    \/ DetectRollingAverage
    \/ DetectEnsemble
    \/ DetectStateLevel
    \/ DetectSeasonal
    \/ DetectCenter
    \/ DetectAuthRetry
    \/ DetectIsolationForest
    \/ DetectZscoreClusters
    \/ DetectChangepoints
    \/ ApplyMultisignalConfirmation
    \/ ApplyPatternCorrelation
    \/ DetectPeerLag
    \/ GenerateVisualization
    \/ GenerateReport
    \/ SaveAnomalies

Spec == Init /\ [][Next]_vars

-----------------------------------------------------------------------------
(* SpecDetect: detector methods called on an engine over arbitrary tables *)

\* Input bound: calls a caller makes on one engine.
MaxCalls == 3

Repeat(v, n) == [i \in 1..n |-> v]

\* The monthly tables a caller may build the engine on:
\*   a single month; twelve constant months (one metric at zero);
\*   a lone peak among eight, nine and twelve months, with a lone dip;
\*   twelve months with a peak beyond 3 std and a dip between 2.5 and 3;
\*   twelve months alternating 49/51 with one month set to 54, which is
\*   four deviations of the alternating series above its mean.
DetectMonthlyTables ==
    { MonthlyAgg(<<50>>, <<40>>, <<0>>),
      MonthlyAgg(Repeat(50, 12), Repeat(40, 12), Repeat(0, 12)),
      MonthlyAgg(<<50, 50, 50, 100, 50, 50, 50, 50>>,
                 <<40, 40, 40, 40, 40, 40, 0, 40>>, Repeat(30, 8)),
      MonthlyAgg(<<50, 50, 50, 100, 50, 50, 50, 50, 50>>,
                 <<40, 40, 40, 40, 40, 40, 0, 40, 40>>, Repeat(30, 9)),
      MonthlyAgg(<<50, 50, 50, 50, 50, 100, 50, 50, 50, 50, 50, 50>>,
                 <<50, 50, 50, 0, 50, 50, 50, 30, 50, 50, 50, 50>>, Repeat(30, 12)),
      MonthlyAgg(<<49, 51, 49, 51, 49, 54, 49, 51, 49, 51, 49, 51>>,
                 <<40, 41, 40, 39, 40, 40, 41, 40, 39, 40, 40, 40>>, Repeat(30, 12)) }

\* Size of the large center table, and how many of its centers are fast.
CenterRecords == 500
FastCenters == 5

\* A center table of CenterRecords rows: the first FastCenters take 2.5
\* minutes, the others between 8.0 and 12.9; error rates between 1.0 and 4.0.
LargeCenterTable ==
    [columns |-> {"center_id", "region", "avg_processing_time_min", "biometric_error_rate_pct"},
     rows    |-> [i \in 1..CenterRecords |->
                    [center_id |-> "IND-" \o ToString(10000 + i),
                     region |-> IF i % 2 = 0 THEN "North" ELSE "South",
                     avg_processing_time_min |-> IF i <= FastCenters THEN 25 ELSE 80 + (i % 50),
                     biometric_error_rate_pct |-> 10 + (i % 31)]]]

\* The center tables a caller may build the engine on.
DetectCenterTables ==
    { [columns |-> DOMAIN CenterRows[1], rows |-> CenterRows], LargeCenterTable }

\* A caller has built an engine and calls its detectors in any order.
InitDetect ==
    /\ data_dir \in OptionalFile(HistoricalFiles.center_perf, DetectCenterTables)
    /\ \E monthly_agg \in DetectMonthlyTables :
          engine = AnomalyDetectionEngine(
                      [monthly_agg |-> monthly_agg],
                      [state_features |-> StateFeatures(<<"Bihar", "Kerala", "Goa">>,
                                                        <<65, 72, 68>>, <<10, 12, 11>>)],
                      aggregate_ingested_data(data_dir))
    /\ pc = "caller"
    /\ exception = None
    /\ calls = <<>>
    /\ config = DefaultConfig
    /\ IdleConfirm
    /\ IdleCorr

\* The call 'name' returns, leaving the engine as 'self'.
Called(name, self) ==
    /\ pc = "caller"
    /\ Len(calls) < MaxCalls
    /\ engine' = self
    /\ calls' = Append(calls, name)
    /\ UNCHANGED <<pc, exception, data_dir, config, msvars, cevars>>

CallDetectZscore ==
    Called("detect_zscore_anomalies", detect_zscore_anomalies(engine))

\* The thresholds a caller passes: the default, 1, and 0, which is not a
\* positive number.
RollingThresholds == {RollingThreshold, [num |-> 1, den |-> 1], [num |-> 0, den |-> 1]}

\* The method reads its arguments in the mask alone: there is no check of
\* them, and no path on which a threshold raises.
CallDetectRollingAverage ==
    \E threshold \in RollingThresholds :
        /\ pc = "caller"
        /\ Len(calls) < MaxCalls
        /\ engine' = detect_rolling_average_anomalies(engine, Window, threshold)
        /\ calls' = Append(calls, "detect_rolling_average_anomalies")
        /\ config' = [window |-> Window, threshold |-> threshold]
        /\ UNCHANGED <<pc, exception, data_dir, msvars, cevars>>

CallDetectCenter ==
    /\ ~detect_center_anomalies_raises(engine)
    /\ Called("detect_center_anomalies", detect_center_anomalies(engine))

NextDetect == CallDetectZscore \/ CallDetectRollingAverage \/ CallDetectCenter

SpecDetect == InitDetect /\ [][NextDetect]_vars

-----------------------------------------------------------------------------
(* Claims about multisignal_confirmation (SpecConfirm) *)

InputSignatures ==
    UNION { { signature(ms_sources[s].anomalies[i]) : i \in 1..Len(ms_sources[s].anomalies) }
            : s \in 1..Len(ms_sources) }

\* The distinct source names that handed in an anomaly of this signature.
ProducersOf(sig) ==
    { ms_sources[s].name : s \in { t \in 1..Len(ms_sources) :
          \E i \in 1..Len(ms_sources[t].anomalies) :
              signature(ms_sources[t].anomalies[i]) = sig } }

AllOutputs == ms_result.confirmed \o ms_result.potential

OutputsOf(sig) == { i \in 1..Len(AllOutputs) : signature(AllOutputs[i]) = sig }

\* C1: every signature of the input comes out as an anomaly whose
\* confirmation_status is CONFIRMED exactly when at least two distinct
\* sources produced it and POTENTIAL exactly when one did; a source that
\* reports a signature several times counts once.
C1_StatusByDistinctSources ==
    ms_done =>
        \A sig \in InputSignatures :
            /\ OutputsOf(sig) # {}
            /\ \A i \in OutputsOf(sig) :
                 /\ (AllOutputs[i]["confirmation_status"] = "CONFIRMED")
                        <=> (Cardinality(ProducersOf(sig)) >= 2)
                 /\ (AllOutputs[i]["confirmation_status"] = "POTENTIAL")
                        <=> (Cardinality(ProducersOf(sig)) = 1)

\* A signature reported twice by one source and once by another: three
\* detections, two distinct sources, CONFIRMED.
C1_Witness ==
    /\ ms_done
    /\ \E i \in 1..Len(ms_result.confirmed) :
          /\ Len(ms_result.confirmed[i]["detected_by"]) = 3
          /\ ms_result.confirmed[i]["detection_count"] = 2
          /\ ms_result.confirmed[i]["confirmation_status"] = "CONFIRMED"

SeverityRank(sev) == CASE sev = "Critical" -> 3 [] sev = "High" -> 2 [] OTHER -> 1

\* The severity of the first anomaly handed in with this signature: the
\* one whose fields the output anomaly copies.
OriginalSeverity(sig) ==
    LET dets == Detections(ms_sources)
        first == CHOOSE i \in 1..Len(dets) :
                    /\ signature(dets[i].anomaly) = sig
                    /\ \A j \in 1..(i - 1) : signature(dets[j].anomaly) # sig
    IN  dets[first].anomaly["severity"]

\* C2: a CONFIRMED anomaly has severity High or Critical and not below the
\* severity its detector assigned (Critical stays Critical); a POTENTIAL
\* anomaly keeps its detector's severity.
C2_ConfirmedSeverityEscalated ==
    ms_done =>
        /\ \A i \in 1..Len(ms_result.confirmed) :
              LET a == ms_result.confirmed[i]
              IN  /\ a["severity"] \in {"High", "Critical"}
                  /\ SeverityRank(a["severity"]) >= SeverityRank(OriginalSeverity(signature(a)))
        /\ \A i \in 1..Len(ms_result.potential) :
              LET a == ms_result.potential[i]
              IN  a["severity"] = OriginalSeverity(signature(a))

-----------------------------------------------------------------------------
(* Claims about the correlation engine (SpecCorr) *)

SundayDates == {"2024-01-07", "2024-01-14"}

\* An anomaly of a Drop type whose date is a Sunday.
IsSundayDrop(anomaly) ==
    /\ "anomaly_type" \in DOMAIN anomaly
    /\ anomaly["anomaly_type"] \in {"Drop", "Sudden Drop"}
    /\ "date" \in DOMAIN anomaly
    /\ anomaly["date"] \in SundayDates

Batch == 1..Len(ce_anomalies)

\* C4 as stated: every Drop-type anomaly dated on a Sunday is emitted
\* suppressed, with the reason "Historical Pattern: Weekly Dip (Benign)".
C4_SundayDropReasonWeeklyDip ==
    ce_ran =>
        \A i \in Batch :
            IsSundayDrop(ce_anomalies[i]) =>
                /\ ce_enriched[i]["is_suppressed"] = TRUE
                /\ ce_enriched[i]["suppression_reason"] = "Historical Pattern: Weekly Dip (Benign)"

\* C4 as amended: every Drop-type anomaly dated on a Sunday is emitted
\* suppressed, with the reason "Historical Pattern: Weekly Sunday Dip (Benign)".
C4_SundayDropSuppressed ==
    ce_ran =>
        \A i \in Batch :
            IsSundayDrop(ce_anomalies[i]) =>
                /\ ce_enriched[i]["is_suppressed"] = TRUE
                /\ ce_enriched[i]["suppression_reason"]
                      = "Historical Pattern: Weekly Sunday Dip (Benign)"

C4_Witness ==
    /\ ce_ran
    /\ \E i \in Batch : IsSundayDrop(ce_anomalies[i]) /\ ce_enriched[i]["is_suppressed"]

EnrichmentKeys ==
    {"temporal_cluster_id", "concurrent_anomalies", "geo_hotspot_score",
     "is_persistent_offender", "is_suppressed", "suppression_reason",
     "confidence_score", "compliance_signature"}

\* C5: a non-empty batch comes back as one enriched anomaly per input
\* anomaly, in input order, each with all the enrichment keys; suppressed
\* anomalies are among them.
C5_OneEnrichedPerInput ==
    (ce_ran /\ ce_anomalies # <<>>) =>
        /\ Len(ce_enriched) = Len(ce_anomalies)
        /\ \A i \in Batch :
              /\ \A k \in DOMAIN ce_anomalies[i] : ce_enriched[i][k] = ce_anomalies[i][k]
              /\ EnrichmentKeys \subseteq DOMAIN ce_enriched[i]
              /\ ce_enriched[i]["confidence_score"] \in 0..999
              /\ ce_enriched[i]["compliance_signature"] # None

\* A batch of several anomalies of which one is suppressed and one is not.
C5_Witness ==
    /\ ce_ran
    /\ Len(ce_enriched) >= 2
    /\ \E i, j \in 1..Len(ce_enriched) :
          ce_enriched[i]["is_suppressed"] /\ ~ce_enriched[j]["is_suppressed"]

MinOf(a, b) == IF a < b THEN a ELSE b

\* C6: confidence_score = min(99.9, 75 + s + c + g + p), from the severity
\* and the correlation values the same enriched anomaly carries.
C6_ConfidenceFormula ==
    ce_ran =>
        \A i \in 1..Len(ce_enriched) :
            LET e == ce_enriched[i]
                sb == CASE e["severity"] = "Critical" -> 150
                        [] e["severity"] = "High" -> 100
                        [] OTHER -> 0
                cb == IF e["concurrent_anomalies"] > 3 THEN 50 ELSE 0
                gb == IF e["geo_hotspot_score"] > 30 THEN 40 ELSE 0
                pb == IF e["is_persistent_offender"] THEN 50 ELSE 0
            IN  e["confidence_score"] = MinOf(999, 750 + sb + cb + gb + pb)

\* An anomaly with every boost, whose sum 104.0 is capped at 99.9.
C6_Witness ==
    /\ ce_ran
    /\ \E i \in 1..Len(ce_enriched) :
          /\ ce_enriched[i]["severity"] = "Critical"
          /\ ce_enriched[i]["concurrent_anomalies"] > 3
          /\ ce_enriched[i]["geo_hotspot_score"] > 30
          /\ ce_enriched[i]["is_persistent_offender"]
          /\ ce_enriched[i]["confidence_score"] = 999

\* Hotspot scores the monotonicity check raises to, in hundredths: every
\* tenth, and the two sides of the 0.3 threshold.
GeoProbes == { 10 * k : k \in 0..10 } \cup {31}

\* C7: the score of every enriched anomaly lies in 75..99.9 and does not
\* fall when one of severity, concurrent_anomalies, geo_hotspot_score and
\* is_persistent_offender is raised with the other three held fixed.
C7_ConfidenceMonotone ==
    ce_ran =>
        \A i \in 1..Len(ce_enriched) :
            LET e == ce_enriched[i]
                c == e["confidence_score"]
            IN  /\ c >= 750 /\ c <= 999
                /\ \A sev \in Severities :
                      SeverityRank(sev) >= SeverityRank(e["severity"])
                          => confidence_score(Put(e, "severity", sev)) >= c
                /\ \A n \in e["concurrent_anomalies"]..(MaxBatch + 2) :
                      confidence_score(Put(e, "concurrent_anomalies", n)) >= c
                /\ \A g \in { x \in GeoProbes : x >= e["geo_hotspot_score"] } :
                      confidence_score(Put(e, "geo_hotspot_score", g)) >= c
                /\ confidence_score(Put(e, "is_persistent_offender", TRUE)) >= c

\* Two anomalies of one batch that differ in severity alone, the more
\* severe one scored strictly higher.
C7_Witness ==
    /\ ce_ran
    /\ \E i, j \in 1..Len(ce_enriched) :
          /\ SeverityRank(ce_enriched[i]["severity"]) < SeverityRank(ce_enriched[j]["severity"])
          /\ ce_enriched[i]["concurrent_anomalies"] = ce_enriched[j]["concurrent_anomalies"]
          /\ ce_enriched[i]["geo_hotspot_score"] = ce_enriched[j]["geo_hotspot_score"]
          /\ ce_enriched[i]["is_persistent_offender"] = ce_enriched[j]["is_persistent_offender"]
          /\ ce_enriched[i]["confidence_score"] < ce_enriched[j]["confidence_score"]

\* The tuple the signature is said to be a function of.
AuditTuple(anomaly) ==
    <<Get(anomaly, "date"), Get(anomaly, "region"), Get(anomaly, "center_id"),
      Get(anomaly, "anomaly_type")>>

\* C8: anomalies with equal (date, region, center_id, anomaly_type) get
\* equal signatures, and anomalies whose tuples differ are hashed from
\* different audit strings.
C8_SignatureInjectiveOnTuple ==
    ce_ran =>
        \A i, j \in Batch :
            /\ AuditTuple(ce_anomalies[i]) = AuditTuple(ce_anomalies[j])
                  => ce_enriched[i]["compliance_signature"] = ce_enriched[j]["compliance_signature"]
            /\ AuditTuple(ce_anomalies[i]) # AuditTuple(ce_anomalies[j])
                  => ce_enriched[i]["compliance_signature"] # ce_enriched[j]["compliance_signature"]

-----------------------------------------------------------------------------
(* Claims about run_anomaly_detection (Spec) *)

\* The category lists of the report.
ReportCategories ==
    {"temporal_anomalies", "state_anomalies", "center_anomalies", "retry_anomalies",
     "seasonal_anomalies", "peer_lag_anomalies", "ml_confirmed_anomalies",
     "ml_potential_anomalies", "suppressed_anomalies"}

\* run_anomaly_detection has built its report.
ReportBuilt == pc \in {"save_anomalies", "done"}

\* C3: once run_anomaly_detection has returned, every anomaly in every
\* category list of the report carries a compliance_signature.
C3_EveryReportAnomalySigned ==
    pc = "done" =>
        \A category \in ReportCategories :
            \A i \in 1..Len(engine.report[category]) :
                "compliance_signature" \in DOMAIN engine.report[category][i]

\* The files of the optional datasets.
OptionalFiles ==
    { HistoricalFiles[key] : key \in DOMAIN HistoricalFiles } \cup {BenchmarkFile}

\* A run is under way or over, and it found none of the optional files.
AllOptionalAbsent == pc # "idle" /\ DOMAIN data_dir \cap OptionalFiles = {}

\* The engine lists fed by the detectors over optional datasets.
OptionalLists ==
    {"center_anomalies", "retry_anomalies", "seasonal_anomalies", "peer_lag_anomalies",
     "isolation_forest_anomalies", "zscore_cluster_anomalies", "changepoint_anomalies",
     "confirmed_anomalies", "potential_anomalies", "suppressed_anomalies"}

\* The report categories fed by the optional datasets.
OptionalCategories ==
    {"center_anomalies", "retry_anomalies", "seasonal_anomalies", "peer_lag_anomalies",
     "ml_confirmed_anomalies", "ml_potential_anomalies", "suppressed_anomalies"}

\* C9: when no optional dataset is there, no call raises, every detector
\* over an optional dataset leaves its list empty, and the report, once
\* built, has each of the optional categories, all of them empty.
C9_AbsentOptionalDatasets ==
    AllOptionalAbsent =>
        /\ pc # "raised"
        /\ \A list \in OptionalLists : GetOr(engine, list, <<>>) = <<>>
        /\ ReportBuilt =>
              /\ "summary" \in DOMAIN engine.report
              /\ \A category \in OptionalCategories :
                    /\ category \in DOMAIN engine.report
                    /\ engine.report[category] = <<>>

\* A run without optional datasets has returned and saved a report with
\* empty optional categories.
C9_Witness ==
    /\ AllOptionalAbsent
    /\ pc = "done"
    /\ ReportFile \in DOMAIN data_dir
    /\ \A category \in OptionalCategories : data_dir[ReportFile][category] = <<>>

\* C10: a failure raised inside a detector (a KeyError on a missing column)
\* is isolated: it does not leave run_anomaly_detection, whose later calls
\* are still made.
C10_DetectorFailureIsolated == ~(pc = "raised" /\ exception = "KeyError")

-----------------------------------------------------------------------------
(* Claims about the detectors of AnomalyDetectionEngine (SpecDetect) *)

\* The method has been called, and has returned, at least once.
HasCalled(name) == \E i \in 1..Len(calls) : calls[i] = name

\* The series of a metric in the monthly table the engine was built on.
MetricSeries(metric) == Column(engine.monthly_agg, metric)

IsConstant(values) == \A i, j \in 1..Len(values) : values[i] = values[j]

\* The anomalies the engine has recorded for a metric.
AnomaliesOf(metric) ==
    SelectSeq(engine.anomalies, LAMBDA a : a.metric = metric)

\* C11: for a metric whose series is constant (a series of length 1
\* included), detect_zscore_anomalies returns without raising and the
\* engine holds no anomaly for that metric.
C11_ConstantSeriesNoAnomaly ==
    HasCalled("detect_zscore_anomalies") =>
        /\ exception = None
        /\ \A m \in 1..Len(Metrics) :
              IsConstant(MetricSeries(Metrics[m])) => AnomaliesOf(Metrics[m]) = <<>>

\* detect_zscore_anomalies has run over a table of several months in which
\* one metric is constant and another is not, and flagged only the latter.
C11_Witness ==
    /\ calls = <<"detect_zscore_anomalies">>
    /\ Len(engine.monthly_agg.rows) >= 2
    /\ IsConstant(MetricSeries("total_bio_updates"))
    /\ AnomaliesOf("total_bio_updates") = <<>>
    /\ AnomaliesOf("total_enrolment") # <<>>

\* abs(v - mean) > (num / den) * std, std being the population deviation
\* (the divisor is n, not n - 1).
PopulationDeviatesBeyond(values, v, num, den) ==
    LET n == Len(values)
        d == ScaledDev(values, v)
    IN  d * d * n * den * den > num * num * ScaledVar(values)

\* The periods the population z-score flags at the threshold 2.5, each with
\* its type and severity.
PopulationFlags(metric) ==
    LET values == MetricSeries(metric)
    IN  { [month        |-> engine.monthly_agg.rows[idx].month,
           anomaly_type |-> IF ScaledDev(values, values[idx]) > 0 THEN "Spike" ELSE "Drop",
           severity     |-> IF PopulationDeviatesBeyond(values, values[idx], 3, 1)
                            THEN "Critical" ELSE "High"] :
          idx \in { i \in 1..Len(values) : PopulationDeviatesBeyond(values, values[i], 5, 2) } }

\* The periods the engine has recorded for a metric, each with its type and
\* severity.
RecordedFlags(metric) ==
    LET found == AnomaliesOf(metric)
    IN  { [month        |-> found[k].month,
           anomaly_type |-> found[k].anomaly_type,
           severity     |-> found[k].severity] : k \in 1..Len(found) }

\* C12: for a metric whose series is not constant, detect_zscore_anomalies
\* flags exactly the periods whose deviation from the population mean
\* exceeds 2.5 population standard deviations, as Spike above the mean and
\* Drop below it, Critical beyond 3 deviations and High otherwise.
C12_PopulationZscoreFlags ==
    calls = <<"detect_zscore_anomalies">> =>
        \A m \in 1..Len(Metrics) :
            ~IsConstant(MetricSeries(Metrics[m])) =>
                RecordedFlags(Metrics[m]) = PopulationFlags(Metrics[m])

\* The calls of the two detectors that feed self.anomalies, in order.
TemporalCalls ==
    SelectSeq(calls, LAMBDA name : name \in {"detect_zscore_anomalies",
                                              "detect_rolling_average_anomalies"})

ZscoreThenRolling ==
    TemporalCalls = <<"detect_zscore_anomalies", "detect_rolling_average_anomalies">>

RollingTypes == {"Trend Break", "Sudden Drop"}

\* C13: after detect_zscore_anomalies followed by
\* detect_rolling_average_anomalies, no (month, metric) pair is held by more
\* than one temporal anomaly, so the rolling detector has emitted nothing for
\* a pair the z-score detector flagged, and every anomaly the rolling
\* detector emitted has severity Medium.
C13_RollingSkipsFlaggedPairs ==
    ZscoreThenRolling =>
        /\ \A i, j \in 1..Len(engine.anomalies) :
              (/\ engine.anomalies[i].month = engine.anomalies[j].month
               /\ engine.anomalies[i].metric = engine.anomalies[j].metric) => i = j
        /\ \A i \in 1..Len(engine.anomalies) :
              engine.anomalies[i].anomaly_type \in RollingTypes
                  => engine.anomalies[i].severity = "Medium"

\* The month of row idx deviates from its rolling window of Window months by
\* more than one rolling deviation.
RollingDeviates(metric, idx) ==
    LET values == MetricSeries(metric)
    IN  DeviatesBeyond(SubSeq(values, IF idx > Window THEN idx - Window + 1 ELSE 1, idx),
                       values[idx], 1, 1)

\* Both detectors have run, the rolling one with a threshold at which it
\* emits an anomaly, and a month the z-score detector flagged also deviates
\* from its rolling window, yet is held once.
C13_Witness ==
    /\ ZscoreThenRolling
    /\ \E i \in 1..Len(engine.anomalies) : engine.anomalies[i].severity = "Medium"
    /\ \E i \in 1..Len(engine.anomalies) :
          \E idx \in 1..Len(engine.monthly_agg.rows) :
              /\ engine.anomalies[i].anomaly_type \in {"Spike", "Drop"}
              /\ engine.monthly_agg.rows[idx].month = engine.anomalies[i].month
              /\ RollingDeviates(engine.anomalies[i].metric, idx)

\* The center_id of each element, in order.
CenterIds(records) == [k \in 1..Len(records) |-> records[k].center_id]

\* The recorded center anomalies of one type.
CenterAnomaliesOfType(type) ==
    SelectSeq(engine.center_anomalies, LAMBDA a : a.anomaly_type = type)

\* detect_center_anomalies has been called once, on a center table.
CenterDetectedOnce ==
    /\ engine.center_ops # NoneDf
    /\ Len(SelectSeq(calls, LAMBDA name : name = "detect_center_anomalies")) = 1

\* C14: detect_center_anomalies records an Impossible Efficiency anomaly,
\* Critical, for exactly the rows whose avg_processing_time_min is below 8.0
\* and a High Bio-Failure Rate anomaly, High, for exactly the rows whose
\* biometric_error_rate_pct is above 4.0, a row at either boundary not being
\* flagged; of 500 records with 5 under 3 minutes and the others at 8.0 or
\* more, exactly those 5 are flagged as Impossible Efficiency.
C14_CenterThresholds ==
    CenterDetectedOnce =>
        LET speed == CenterAnomaliesOfType("Impossible Efficiency (Bot Risk)")
            error == CenterAnomaliesOfType("High Bio-Failure Rate")
            rows  == engine.center_ops.rows
        IN  /\ Len(engine.center_anomalies) = Len(speed) + Len(error)
            /\ CenterIds(speed) =
                  CenterIds(SelectSeq(rows, LAMBDA r : r.avg_processing_time_min < 80))
            /\ CenterIds(error) =
                  CenterIds(SelectSeq(rows, LAMBDA r : r.biometric_error_rate_pct > 40))
            /\ \A k \in 1..Len(speed) : speed[k].severity = "Critical"
            /\ \A k \in 1..Len(error) : error[k].severity = "High"
            /\ (/\ Len(rows) = CenterRecords
                /\ \A i \in 1..Len(rows) :
                      IF i <= FastCenters THEN rows[i].avg_processing_time_min < 30
                      ELSE rows[i].avg_processing_time_min >= 80)
               => CenterIds(speed) = CenterIds(SubSeq(rows, 1, FastCenters))

\* The detector has run over the table of 500 centers, which has rows at
\* exactly 8.0 minutes and at exactly 4.0 percent, and flagged 5 of them.
C14_Witness ==
    /\ CenterDetectedOnce
    /\ Len(engine.center_ops.rows) = CenterRecords
    /\ \E i \in 1..CenterRecords : engine.center_ops.rows[i].avg_processing_time_min = 80
    /\ \E i \in 1..CenterRecords : engine.center_ops.rows[i].biometric_error_rate_pct = 40
    /\ Len(engine.center_anomalies) = FastCenters

-----------------------------------------------------------------------------
(* Claims about the correlation steps (SpecCorr) *)

\* The anomaly was handed in with a date.
Dated(anomaly) == "date" \in DOMAIN anomaly

\* The anomalies of the batch dated within one day of anomaly i.
CoOccurring(i) ==
    { j \in Batch :
        /\ Dated(ce_anomalies[j])
        /\ to_datetime(ce_anomalies[j].date) >= to_datetime(ce_anomalies[i].date) - 1
        /\ to_datetime(ce_anomalies[j].date) <= to_datetime(ce_anomalies[i].date) + 1 }

\* C15: for every anomaly with a date, concurrent_anomalies is the number of
\* anomalies of the batch dated within one day of it, stored whether or not
\* a cluster id is assigned; temporal_cluster_id is set exactly when that
\* number exceeds 3; anomalies of one date, whose windows are the same, get
\* the same temporal_cluster_id; an anomaly without a date gets none.
C15_TemporalCorrelation ==
    ce_ran =>
        \A i \in Batch :
            /\ "concurrent_anomalies" \in DOMAIN ce_enriched[i]
            /\ Dated(ce_anomalies[i]) =>
                  /\ ce_enriched[i]["concurrent_anomalies"] = Cardinality(CoOccurring(i))
                  /\ (ce_enriched[i]["temporal_cluster_id"] # None)
                        <=> (Cardinality(CoOccurring(i)) > 3)
                  /\ \A j \in Batch :
                        (Dated(ce_anomalies[j]) /\ ce_anomalies[j].date = ce_anomalies[i].date)
                            => ce_enriched[j]["temporal_cluster_id"]
                                  = ce_enriched[i]["temporal_cluster_id"]
            /\ ~Dated(ce_anomalies[i]) => ce_enriched[i]["temporal_cluster_id"] = None

\* The anomaly was handed in with a region.
Regioned(anomaly) == "region" \in DOMAIN anomaly

\* The anomalies of the batch in the region of anomaly i.
SameRegion(i) ==
    { j \in Batch : Regioned(ce_anomalies[j]) /\ ce_anomalies[j].region = ce_anomalies[i].region }

\* The score, in hundredths, of an anomaly without a region is 0; the scores
\* lie in [0, 1] and are the same for the anomalies of one region.
HotspotScoresUniform ==
    \A i \in Batch :
        /\ ce_enriched[i]["geo_hotspot_score"] \in 0..100
        /\ ~Regioned(ce_anomalies[i]) => ce_enriched[i]["geo_hotspot_score"] = 0
        /\ Regioned(ce_anomalies[i]) =>
              \A j \in SameRegion(i) :
                  ce_enriched[j]["geo_hotspot_score"] = ce_enriched[i]["geo_hotspot_score"]

\* C16 as stated: geo_hotspot_score equals the number of anomalies of the
\* batch in the anomaly's region divided by the size of the batch, lies in
\* [0, 1], is the same for the anomalies of one region, and is 0 for an
\* anomaly without a region.
C16_HotspotScoreIsExactShare ==
    ce_ran =>
        /\ HotspotScoresUniform
        /\ \A i \in Batch :
              Regioned(ce_anomalies[i]) =>
                  ce_enriched[i]["geo_hotspot_score"] * Len(ce_anomalies)
                      = 100 * Cardinality(SameRegion(i))

\* C16 amended: geo_hotspot_score is that share rounded to two decimals (it
\* is within 0.005 of the share and a whole number of hundredths), lies in
\* [0, 1], is the same for the anomalies of one region, and is 0 for an
\* anomaly without a region.
C16_HotspotScoreIsRoundedShare ==
    ce_ran =>
        /\ HotspotScoresUniform
        /\ \A i \in Batch :
              Regioned(ce_anomalies[i]) =>
                  LET off == ce_enriched[i]["geo_hotspot_score"] * Len(ce_anomalies)
                             - 100 * Cardinality(SameRegion(i))
                  IN  2 * off <= Len(ce_anomalies) /\ -2 * off <= Len(ce_anomalies)

\* A batch of three: two anomalies of one region scored 0.67 (their share is
\* 2/3) and one anomaly without a region scored 0.
C16_Witness ==
    /\ ce_ran
    /\ Len(ce_anomalies) = 3
    /\ \E i, j \in Batch :
          /\ Regioned(ce_anomalies[i])
          /\ Cardinality(SameRegion(i)) = 2
          /\ ce_enriched[i]["geo_hotspot_score"] = 67
          /\ ~Regioned(ce_anomalies[j])
          /\ ce_enriched[j]["geo_hotspot_score"] = 0

\* The anomaly was handed in with a center_id.
Centered(anomaly) == "center_id" \in DOMAIN anomaly

\* The anomalies of the batch that carry the center_id of anomaly i.
SameCenter(i) ==
    { j \in Batch :
        Centered(ce_anomalies[j]) /\ ce_anomalies[j].center_id = ce_anomalies[i].center_id }

\* C17: is_persistent_offender is true exactly for an anomaly that has a
\* center_id which more than 2 anomalies of the batch carry; an anomaly
\* without a center_id is never flagged.
C17_PersistentOffender ==
    ce_ran =>
        \A i \in Batch :
            ce_enriched[i]["is_persistent_offender"]
                = (Centered(ce_anomalies[i]) /\ Cardinality(SameCenter(i)) > 2)

\* A batch in which three anomalies carry one center_id and are flagged,
\* next to an anomaly without a center_id, which is not.
C17_Witness ==
    /\ ce_ran
    /\ \E i, j \in Batch :
          /\ Centered(ce_anomalies[i])
          /\ Cardinality(SameCenter(i)) = 3
          /\ ce_enriched[i]["is_persistent_offender"]
          /\ ~Centered(ce_anomalies[j])
          /\ ~ce_enriched[j]["is_persistent_offender"]

-----------------------------------------------------------------------------
(* Claims about the order of the stages and the report summary (Spec) *)

\* The position of a call in the run; the call has been made.
CallIndex(name) == CHOOSE i \in 1..Len(calls) : calls[i] = name

\* The first call was made, and had returned, before the second was made.
FinishedBefore(first, second) ==
    /\ HasCalled(first)
    /\ HasCalled(second) => CallIndex(first) < CallIndex(second)

\* The detectors whose anomalies confirmation reads.
ConfirmationSources ==
    {"detect_seasonal_anomalies", "detect_isolation_forest_anomalies",
     "detect_zscore_clusters", "detect_changepoints"}

\* The detectors, each with the report category its anomalies are listed in.
DetectorCategory ==
    [detect_zscore_anomalies           |-> "temporal_anomalies",
     detect_rolling_average_anomalies  |-> "temporal_anomalies",
     detect_state_level_anomalies      |-> "state_anomalies",
     detect_seasonal_anomalies         |-> "seasonal_anomalies",
     detect_center_anomalies           |-> "center_anomalies",
     detect_auth_retry_anomalies       |-> "retry_anomalies",
     detect_peer_lag_anomalies         |-> "peer_lag_anomalies"]

\* C18: apply_multisignal_confirmation is called only after the seasonal,
\* isolation-forest, clustering and change-point detectors have returned;
\* apply_pattern_correlation is called only after confirmation has returned
\* and, for every detector with anomalies in the report, after that
\* detector has returned.
C18_BarrierOrder ==
    /\ HasCalled("apply_multisignal_confirmation") =>
          \A d \in ConfirmationSources : FinishedBefore(d, "apply_multisignal_confirmation")
    /\ HasCalled("apply_pattern_correlation") =>
          FinishedBefore("apply_multisignal_confirmation", "apply_pattern_correlation")
    /\ ReportBuilt =>
          \A d \in DOMAIN DetectorCategory :
              engine.report[DetectorCategory[d]] # <<>>
                  => FinishedBefore(d, "apply_pattern_correlation")

\* The category lists of the report, in the order of the report.
ReportLists ==
    <<"temporal_anomalies", "state_anomalies", "center_anomalies", "retry_anomalies",
      "seasonal_anomalies", "peer_lag_anomalies", "ml_confirmed_anomalies",
      "ml_potential_anomalies", "suppressed_anomalies">>

\* The anomalies of the report in the given category lists.
ReportAnomalies(lists) ==
    Concat([k \in 1..Len(lists) |-> engine.report[lists[k]]] \o <<>>)

Signed(anomaly) == "compliance_signature" \in DOMAIN anomaly

\* C19: audit_signed_count in the compliance block of the summary is the
\* number of anomalies of the report that carry a compliance_signature.
C19_AuditSignedCount ==
    ReportBuilt =>
        engine.report.summary.audit_signed_count
            = Len(SelectSeq(ReportAnomalies(ReportLists), Signed))

\* The category lists of the report that hold non-suppressed anomalies.
CountedLists ==
    <<"temporal_anomalies", "state_anomalies", "center_anomalies", "retry_anomalies",
      "seasonal_anomalies", "peer_lag_anomalies", "ml_confirmed_anomalies">>

\* C20: total_anomalies and the count of each severity in the summary are
\* those taken over the temporal, state, center, retry, seasonal, peer-lag
\* and ML-confirmed lists of the report, and the three severity counts add
\* up to total_anomalies.
C20_SummaryCounts ==
    ReportBuilt =>
        LET counted == ReportAnomalies(CountedLists)
            count(sev) == Len(SelectSeq(counted, LAMBDA a : Get(a, "severity") = sev))
            summary == engine.report.summary
        IN  /\ summary.total_anomalies = Len(counted)
            /\ summary.critical_count = count("Critical")
            /\ summary.high_count = count("High")
            /\ summary.medium_count = count("Medium")
            /\ summary.critical_count + summary.high_count + summary.medium_count
                  = summary.total_anomalies

-----------------------------------------------------------------------------
(* Claims about repeated and misconfigured detector calls (SpecDetect) *)

\* The list each detector appends to.
DetectorList ==
    [detect_zscore_anomalies |-> "anomalies",
     detect_center_anomalies |-> "center_anomalies"]

\* C21: a detector called again on the same engine, whose input tables are
\* unchanged, leaves its anomaly list as it was: the list stays equal to
\* what a single call produced and no duplicates accumulate.
C21_RepeatedCallAddsNothing ==
    [][\A name \in DOMAIN DetectorList :
          (HasCalled(name) /\ calls' = Append(calls, name))
              => engine'[DetectorList[name]] = engine[DetectorList[name]]]_vars

\* The configuration is not valid: its window or its threshold is not a
\* positive number.
InvalidConfig == config.window <= 0 \/ config.threshold.num <= 0

\* C23: once a detector has been handed an invalid configuration, a
\* configuration error has been surfaced, no detector has run and no
\* anomaly has been recorded.
C23_InvalidConfigIsFatal ==
    InvalidConfig =>
        /\ exception # None
        /\ calls = <<>>
        /\ engine.anomalies = <<>>

-----------------------------------------------------------------------------
(* Claims about the anomalies passed from stage to stage (Spec) *)

\* What identifies a detected anomaly: its date, region and metric and the
\* detector it comes from, which its anomaly_type names.
Identity(anomaly) ==
    <<Get(anomaly, "date"), Get(anomaly, "region"), Get(anomaly, "metric"),
      Get(anomaly, "anomaly_type")>>

\* C22: in the list apply_pattern_correlation is about to hand to the
\* correlation engine, no dated anomaly (identified by date, region, metric
\* and originating detector) occurs more than once, so that the counts of
\* the correlation engine take every detected anomaly once.
C22_CorrelationInputHasNoDuplicate ==
    pc = "apply_pattern_correlation" =>
        LET all_anomalies == correlation_input(engine)
        IN  \A i, j \in 1..Len(all_anomalies) :
                (/\ "date" \in DOMAIN all_anomalies[i]
                 /\ Identity(all_anomalies[i]) = Identity(all_anomalies[j])) => i = j

\* The input tables of the engine.
InputTables ==
    {"monthly_agg", "state_features", "region_updates", "center_ops", "auth_retries"}

\* The lists apply_multisignal_confirmation passes as sources.
ConfirmationSourceLists ==
    {"seasonal_anomalies", "isolation_forest_anomalies", "zscore_cluster_anomalies",
     "changepoint_anomalies"}

\* C24: no call on the engine changes one of its input tables monthly_agg,
\* state_features, region_updates, center_ops and auth_retries, and the call
\* of multisignal_confirmation leaves the anomalies of its source lists as
\* they were.
C24_InputTablesUnchanged ==
    [][/\ \A table \in InputTables : engine'[table] = engine[table]
       /\ pc = "apply_multisignal_confirmation" =>
             \A list \in ConfirmationSourceLists :
                 GetOr(engine', list, <<>>) = GetOr(engine, list, <<>>)]_vars

\* A run over all the optional tables has returned; its detectors found
\* retry, center and seasonal anomalies and confirmation has confirmed one.
C24_Witness ==
    /\ pc = "done"
    /\ \A table \in InputTables : engine[table] # NoneDf
    /\ engine.report.retry_anomalies # <<>>
    /\ engine.report.center_anomalies # <<>>
    /\ engine.report.ml_confirmed_anomalies # <<>>

-----------------------------------------------------------------------------
(* Further claims about multisignal_confirmation (SpecConfirm) *)

\* C25: the confirmed and the potential list share no signature, every
\* distinct signature of the input has exactly one output anomaly, the two
\* lists together are as long as the number of distinct signatures, and the
\* detection_count of an output anomaly is the number of distinct sources
\* that produced its signature.
C25_PartitionBySignature ==
    ms_done =>
        /\ \A i \in 1..Len(ms_result.confirmed) :
              \A j \in 1..Len(ms_result.potential) :
                  signature(ms_result.confirmed[i]) # signature(ms_result.potential[j])
        /\ \A sig \in InputSignatures : Cardinality(OutputsOf(sig)) = 1
        /\ Len(ms_result.confirmed) + Len(ms_result.potential) = Cardinality(InputSignatures)
        /\ \A i \in 1..Len(AllOutputs) :
              AllOutputs[i]["detection_count"]
                  = Cardinality(ProducersOf(signature(AllOutputs[i])))

\* Three detections of two signatures: one signature from two sources,
\* confirmed, and one from a single source, potential.
C25_Witness ==
    /\ ms_done
    /\ SumLen(ms_sources) = 3
    /\ Len(ms_result.confirmed) = 1
    /\ Len(ms_result.potential) = 1
    /\ ms_result.confirmed[1]["detection_count"] = 2

-----------------------------------------------------------------------------
(* Further claims about the correlation engine (SpecCorr) *)

\* C26: an enriched anomaly is suppressed exactly when it is of a Drop type
\* and dated on a Sunday, and it has a suppression_reason exactly when it is
\* suppressed; an anomaly of another type, of another weekday or without a
\* date is not suppressed.
C26_SuppressedIffSundayDrop ==
    ce_ran =>
        \A i \in Batch :
            /\ ce_enriched[i]["is_suppressed"] = IsSundayDrop(ce_anomalies[i])
            /\ (ce_enriched[i]["suppression_reason"] # None) = ce_enriched[i]["is_suppressed"]

-----------------------------------------------------------------------------
(* Claims about the lists apply_pattern_correlation leaves (Spec) *)

\* The lists apply_pattern_correlation sorts the enriched anomalies into.
ActiveLists ==
    <<"center_anomalies", "retry_anomalies", "seasonal_anomalies", "peer_lag_anomalies",
      "confirmed_anomalies">>

\* The anomalies of the given lists of an engine.
ListedIn(self, lists) == Concat([k \in 1..Len(lists) |-> self[lists[k]]] \o <<>>)

\* The fields that tell the anomalies of a run apart.
KeyFields == {"date", "region", "center_id", "metric", "anomaly_type", "severity"}

\* The enriched anomaly carries the key fields of the anomaly handed in.
Enriches(enriched, anomaly) ==
    \A k \in DOMAIN anomaly \cap KeyFields : k \in DOMAIN enriched /\ enriched[k] = anomaly[k]

\* C27: the call of apply_pattern_correlation on a batch that is not empty
\* leaves no suppressed anomaly in an active list and no active anomaly in
\* suppressed_anomalies, and the anomalies handed to the correlation engine
\* come back each in one of center_anomalies, retry_anomalies,
\* seasonal_anomalies, peer_lag_anomalies, confirmed_anomalies and
\* suppressed_anomalies: the six lists hold as many anomalies as were handed
\* in, and each of these is in one of them.
C27_CorrelationPartitions ==
    [][(pc = "apply_pattern_correlation" /\ pc' # pc /\ correlation_input(engine) # <<>>) =>
          LET active == ListedIn(engine', ActiveLists)
              suppressed == engine'.suppressed_anomalies
              handed == correlation_input(engine)
          IN  /\ \A i \in 1..Len(active) : ~active[i]["is_suppressed"]
              /\ \A i \in 1..Len(suppressed) : suppressed[i]["is_suppressed"]
              /\ Len(active) + Len(suppressed) = Len(handed)
              /\ \A i \in 1..Len(handed) :
                    \E j \in 1..Len(active \o suppressed) :
                        Enriches((active \o suppressed)[j], handed[i])]_vars

\* Correlation has run over center, retry, seasonal and confirmed anomalies
\* and has left each of the four lists with an anomaly.
C27_Witness ==
    /\ HasCalled("apply_pattern_correlation")
    /\ engine.center_anomalies # <<>>
    /\ engine.retry_anomalies # <<>>
    /\ engine.seasonal_anomalies # <<>>
    /\ engine.confirmed_anomalies # <<>>
    /\ \A i \in 1..Len(engine.confirmed_anomalies) :
          "compliance_signature" \in DOMAIN engine.confirmed_anomalies[i]

\* C28: once the report is built, every anomaly of the report that
\* confirmation marked CONFIRMED and correlation did not suppress is in the
\* ml_confirmed_anomalies list, whichever sources corroborated it.
C28_ConfirmedAreReported ==
    ReportBuilt =>
        LET listed == ReportAnomalies(ReportLists)
        IN  \A i \in 1..Len(listed) :
                (/\ GetOr(listed[i], "confirmation_status", None) = "CONFIRMED"
                 /\ ~GetOr(listed[i], "is_suppressed", FALSE))
                    => \E j \in 1..Len(engine.report.ml_confirmed_anomalies) :
                          engine.report.ml_confirmed_anomalies[j] = listed[i]

-----------------------------------------------------------------------------
(* Claims about what the rolling detector can flag (SpecDetect) *)

\* Input bounds: the length of the series tried and their largest value.
MaxSeriesLen == 4
MaxSeriesValue == 4

\* Every series of MaxSeriesLen months with values up to MaxSeriesValue, and
\* the series of the table the engine was built on.
SeriesPool ==
    [1..MaxSeriesLen -> 0..MaxSeriesValue]
    \cup { MetricSeries(Metrics[m]) : m \in 1..Len(Metrics) }

\* What detect_rolling_average_anomalies, called with its defaults on a
\* fresh engine over the series, adds to self.anomalies.
DefaultRollingAnomalies(series) ==
    detect_rolling_average_anomalies(
        AnomalyDetectionEngine([monthly_agg |-> MonthlyAgg(series, series, series)],
                               [state_features |-> NoneDf], [historical |-> <<>>]),
        DefaultConfig.window, DefaultConfig.threshold).anomalies

\* C29: there is a metric series on which detect_rolling_average_anomalies,
\* called with its defaults (window 3, threshold 1.5), emits a Trend Break
\* or a Sudden Drop anomaly.
C29_DefaultRollingCanFlag ==
    \E series \in SeriesPool : DefaultRollingAnomalies(series) # <<>>

-----------------------------------------------------------------------------
(* Claims about the clock (SpecCorr) *)

\* The fields of the enriched anomalies two runs are compared on.
ComparedFields ==
    {"temporal_cluster_id", "concurrent_anomalies", "confidence_score", "compliance_signature"}

Compared(enriched) ==
    [i \in 1..Len(enriched) |-> [k \in ComparedFields |-> enriched[i][k]]]

\* C30: a run of run_correlation_pipeline over the same anomaly list on any
\* other day returns the same temporal_cluster_id, concurrent_anomalies,
\* confidence_score and compliance_signature for each anomaly, also when no
\* anomaly of the batch has a date.
C30_CorrelationIgnoresClock ==
    ce_ran =>
        \A now \in NowDays :
            Compared(run_correlation_pipeline(ce_anomalies, now)) = Compared(ce_enriched)

=============================================================================
